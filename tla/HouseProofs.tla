---------------------------- MODULE HouseProofs ----------------------------
(***************************************************************************)
(* Theorems about the parts of a house, for any names, specs, skills,      *)
(* servers, records, timings, flows, keys and documents: the registry of   *)
(* its agents, the partition of one, what it takes from parties it does    *)
(* not run, what it remembers, its meters and a plugin that is loaded.     *)
(* The last section puts them together.                                    *)
(***************************************************************************)
EXTENDS House, SumProofs, FiniteSetTheorems, SequenceTheorems, TLAPS

-----------------------------------------------------------------------------
(* The registry of agents. *)

\* A dict of agents under their own names.
Dict(d) ==
    /\ DOMAIN d \subseteq LegalName
    /\ d = [n \in DOMAIN d |-> d[n]]
    /\ \A n \in DOMAIN d : d[n] \in AgentSpec /\ d[n].name = n
    /\ IsFiniteSet(DOMAIN d)

\* No name is live and retired at once.
Registry ==
    /\ Dict(live)
    /\ Dict(retired)
    /\ DOMAIN live \cap DOMAIN retired = {}

\* Agents that were listed at some time are those the registry has under their names.
StillListed(agents) ==
    /\ agents \subseteq AgentSpec
    /\ IsFiniteSet(agents)
    /\ \A s \in agents : s.name \in Known /\ Get(s.name, TRUE) = s

\* A route is what its message and its roster make it.
Routed ==
    /\ decision \in RouteAnswer
    /\ decision.candidates = Matched(decision.message, decision.among)
    /\ decision.decision = RouteDecision(decision.candidates)

\* The inductive invariant.
AgentsInv == Registry /\ StillListed(roster) /\ StillListed(decision.among) /\ Routed

\* What a step may never do to a name.
NamesKept ==
    \A name \in Known : name \in Known' /\ Get(name, TRUE)' = Get(name, TRUE)

-----------------------------------------------------------------------------
(* The dicts. *)

LEMMA WithOne ==
    ASSUME NEW d, Dict(d), NEW spec \in AgentSpec, spec.name \in LegalName
    PROVE  /\ Dict(With(d, spec))
           /\ DOMAIN With(d, spec) = DOMAIN d \cup {spec.name}
           /\ With(d, spec)[spec.name] = spec
           /\ \A n \in DOMAIN d \ {spec.name} : With(d, spec)[n] = d[n]
<1>1. DOMAIN With(d, spec) = DOMAIN d \cup {spec.name}
  BY DEF With
<1>2. IsFiniteSet(DOMAIN d \cup {spec.name})
  BY FS_AddElement DEF Dict
<1> QED BY <1>1, <1>2 DEF With, Dict

LEMMA WithoutOne ==
    ASSUME NEW d, Dict(d), NEW name
    PROVE  /\ Dict(Without(d, name))
           /\ DOMAIN Without(d, name) = DOMAIN d \ {name}
           /\ \A n \in DOMAIN d \ {name} : Without(d, name)[n] = d[n]
<1>1. DOMAIN Without(d, name) = DOMAIN d \ {name}
  BY DEF Without
<1>2. IsFiniteSet(DOMAIN d \ {name})
  BY FS_RemoveElement DEF Dict
<1> QED BY <1>1, <1>2 DEF Without, Dict

\* The values of a dict are finitely many.
LEMMA ValuesFinite ==
    ASSUME NEW d, Dict(d)
    PROVE  IsFiniteSet({d[n] : n \in DOMAIN d})
<1> DEFINE V == {d[n] : n \in DOMAIN d}
<1>1. d \in Surjection(DOMAIN d, V)
  BY DEF Dict, Surjection
<1> QED BY <1>1, FS_Surjection DEF Dict

-----------------------------------------------------------------------------
(* A registry that changes keeps every name and its agent. *)

LEMMA CreateKeeps ==
    ASSUME Registry, NEW spec \in AgentSpec, Create(spec)
    PROVE  Registry' /\ NamesKept
<1>1. /\ spec.name \in LegalName /\ spec.name \notin Known
      /\ live' = With(live, spec) /\ retired' = retired
  BY DEF Create, MayCreate
<1>2. /\ Dict(live') /\ DOMAIN live' = DOMAIN live \cup {spec.name}
      /\ \A n \in DOMAIN live \ {spec.name} : live'[n] = live[n]
  <2>1. Dict(live)
    BY DEF Registry
  <2>2. /\ Dict(With(live, spec)) /\ DOMAIN With(live, spec) = DOMAIN live \cup {spec.name}
        /\ \A n \in DOMAIN live \ {spec.name} : With(live, spec)[n] = live[n]
    BY <1>1, <2>1, WithOne
  <2> QED BY <1>1, <2>2
<1>3. Registry'
  BY <1>1, <1>2 DEF Registry, Known, Dict
<1>4. NamesKept
  BY <1>1, <1>2 DEF NamesKept, Known, Get, Registry
<1> QED BY <1>3, <1>4

LEMMA RetireKeeps ==
    ASSUME Registry, NEW name \in AgentName, Retire(name)
    PROVE  Registry' /\ NamesKept
<1> DEFINE spec == live[name]
<1>1. /\ name \in DOMAIN live /\ live' = Without(live, name)
      /\ retired' = With(retired, spec)
      /\ spec \in AgentSpec /\ spec.name = name /\ name \in LegalName
  BY DEF Retire, Registry, Dict
<1>2. /\ Dict(live') /\ DOMAIN live' = DOMAIN live \ {name}
      /\ \A n \in DOMAIN live \ {name} : live'[n] = live[n]
  BY <1>1, WithoutOne DEF Registry
<1>3. /\ Dict(retired') /\ DOMAIN retired' = DOMAIN retired \cup {name}
      /\ retired'[name] = spec
      /\ \A n \in DOMAIN retired \ {name} : retired'[n] = retired[n]
  <2>1. Dict(retired) /\ spec.name \in LegalName
    BY <1>1 DEF Registry
  <2>2. /\ Dict(With(retired, spec)) /\ DOMAIN With(retired, spec) = DOMAIN retired \cup {spec.name}
        /\ With(retired, spec)[spec.name] = spec
        /\ \A n \in DOMAIN retired \ {spec.name} : With(retired, spec)[n] = retired[n]
    BY <1>1, <2>1, WithOne
  <2> HIDE DEF spec
  <2> QED BY <1>1, <2>2
<1>4. Registry'
  BY <1>2, <1>3 DEF Registry
<1>5. NamesKept
  BY <1>1, <1>2, <1>3 DEF NamesKept, Known, Get, Registry
<1> QED BY <1>4, <1>5

LEMMA RestoreKeeps ==
    ASSUME Registry, NEW name \in AgentName, Restore(name)
    PROVE  Registry' /\ NamesKept
<1> DEFINE spec == retired[name]
<1>1. /\ name \in DOMAIN retired /\ retired' = Without(retired, name)
      /\ live' = With(live, spec)
      /\ spec \in AgentSpec /\ spec.name = name /\ name \in LegalName
  BY DEF Restore, Registry, Dict
<1>2. /\ Dict(retired') /\ DOMAIN retired' = DOMAIN retired \ {name}
      /\ \A n \in DOMAIN retired \ {name} : retired'[n] = retired[n]
  BY <1>1, WithoutOne DEF Registry
<1>3. /\ Dict(live') /\ DOMAIN live' = DOMAIN live \cup {name}
      /\ live'[name] = spec
      /\ \A n \in DOMAIN live \ {name} : live'[n] = live[n]
  BY <1>1, WithOne DEF Registry
<1>4. Registry'
  BY <1>2, <1>3 DEF Registry
<1>5. NamesKept
  BY <1>1, <1>2, <1>3 DEF NamesKept, Known, Get, Registry
<1> QED BY <1>4, <1>5

\* Lists and routes leave the registry as it is.
LEMMA QuietKeeps ==
    ASSUME Registry, UNCHANGED <<live, retired>>
    PROVE  Registry' /\ NamesKept
BY DEF Registry, Dict, NamesKept, Known, Get

\* What was listed before stays listed while names keep their agents.
LEMMA ListedStays ==
    ASSUME NEW agents, StillListed(agents), NamesKept
    PROVE  /\ agents \subseteq AgentSpec /\ IsFiniteSet(agents)
           /\ \A s \in agents : s.name \in Known' /\ Get(s.name, TRUE)' = s
BY DEF StillListed, NamesKept

LEMMA ListIsListed ==
    ASSUME Registry, NEW include_retired \in BOOLEAN
    PROVE  StillListed(ListAgents(include_retired))
<1> DEFINE L == {live[n] : n \in DOMAIN live}
           R == {retired[n] : n \in DOMAIN retired}
<1>1. L \subseteq AgentSpec /\ R \subseteq AgentSpec
  BY DEF Registry, Dict
<1>2. IsFiniteSet(L) /\ IsFiniteSet(R)
  BY ValuesFinite DEF Registry
<1>3. IsFiniteSet(L \cup R) /\ IsFiniteSet(L \cup {})
  BY <1>2, FS_Union
<1>4. \A s \in L : s.name \in Known /\ Get(s.name, TRUE) = s
  BY DEF Registry, Dict, Known, Get
<1>5. \A s \in R : s.name \in Known /\ Get(s.name, TRUE) = s
  BY DEF Registry, Dict, Known, Get
<1> QED BY <1>1, <1>2, <1>3, <1>4, <1>5 DEF StillListed, ListAgents

-----------------------------------------------------------------------------
(* The invariant. *)

LEMMA AgentsInitInv ==
    ASSUME AgentsInit
    PROVE  AgentsInv
<1>1. IsFiniteSet({})
  BY FS_EmptySet
<1>2. Registry
  BY <1>1 DEF AgentsInit, Registry, Dict
<1>3. StillListed(roster) /\ StillListed(decision.among)
  BY <1>1 DEF AgentsInit, StillListed
<1>4. Routed
  BY DEF AgentsInit, Routed, RouteAnswer, Matched, RouteDecision, TriggerHits
<1> QED BY <1>2, <1>3, <1>4 DEF AgentsInv

LEMMA AgentsNextInv ==
    ASSUME AgentsInv, [AgentsNext]_agentsVars
    PROVE  AgentsInv' /\ NamesKept
<1> USE DEF AgentsInv
<1>1. Registry' /\ NamesKept
  <2>1. ASSUME NEW spec \in AgentSpec, Create(spec)
        PROVE  Registry' /\ NamesKept
    BY <2>1, CreateKeeps
  <2>2. ASSUME NEW name \in AgentName, Retire(name)
        PROVE  Registry' /\ NamesKept
    BY <2>2, RetireKeeps
  <2>3. ASSUME NEW name \in AgentName, Restore(name)
        PROVE  Registry' /\ NamesKept
    BY <2>3, RestoreKeeps
  <2>4. ASSUME \/ \E include_retired \in BOOLEAN : HostLists(include_retired)
               \/ \E message \in SUBSET Trigger : Route(message)
               \/ UNCHANGED agentsVars
        PROVE  Registry' /\ NamesKept
    BY <2>4, QuietKeeps DEF HostLists, Route, agentsVars
  <2> QED BY <2>1, <2>2, <2>3, <2>4 DEF AgentsNext
<1>2. StillListed(roster)'
  <2>1. CASE UNCHANGED roster
    BY <1>1, <2>1, ListedStays DEF StillListed
  <2>2. ASSUME NEW include_retired \in BOOLEAN, HostLists(include_retired)
        PROVE  StillListed(roster)'
    <3>1. StillListed(roster')
      BY <2>2, ListIsListed DEF HostLists
    <3>2. UNCHANGED <<live, retired>>
      BY <2>2 DEF HostLists
    <3> QED BY <3>1, <3>2 DEF StillListed, Known, Get
  <2> QED BY <2>1, <2>2 DEF AgentsNext, Create, Retire, Restore, Route, agentsVars
<1>3. StillListed(decision.among)' /\ Routed'
  <2>1. CASE UNCHANGED decision
    BY <1>1, <2>1, ListedStays DEF StillListed, Routed
  <2>2. ASSUME NEW message \in SUBSET Trigger, Route(message)
        PROVE  StillListed(decision.among)' /\ Routed'
    <3> DEFINE matched == Matched(message, roster)
    <3>1. /\ decision' = [decision |-> RouteDecision(matched), candidates |-> matched,
                          matched_triggers |-> UNION {TriggerHits(message, s) : s \in matched},
                          message |-> message, among |-> roster]
          /\ UNCHANGED roster
      BY <2>2 DEF Route
    <3>2. matched \subseteq roster /\ roster \subseteq AgentSpec
      BY DEF Matched, StillListed
    <3>3. \A s \in matched : TriggerHits(message, s) \subseteq Trigger
      BY DEF TriggerHits
    <3>4. RouteDecision(matched) \in {"default", "matched", "ambiguous"}
      BY DEF RouteDecision
    <3>5. UNION {TriggerHits(message, s) : s \in matched} \subseteq Trigger
      BY <3>3
    <3>6. Routed'
      BY <3>1, <3>2, <3>4, <3>5 DEF Routed, RouteAnswer
    <3>7. StillListed(decision.among)'
      BY <1>2, <3>1 DEF StillListed
    <3> QED BY <3>6, <3>7
  <2> QED BY <2>1, <2>2 DEF AgentsNext, Create, Retire, Restore, HostLists, agentsVars
<1> QED BY <1>1, <1>2, <1>3

LEMMA Reached == AgentsSpec => []AgentsInv
<1>1. AgentsInit => AgentsInv
  BY AgentsInitInv
<1>2. AgentsInv /\ [AgentsNext]_agentsVars => AgentsInv'
  BY AgentsNextInv
<1> QED BY <1>1, <1>2, PTL DEF AgentsSpec

-----------------------------------------------------------------------------
\* The registry and what a host keeps of it have the types of registry.py and routing.py.
THEOREM RegistryTypeCorrect == AgentsSpec => []AgentsTypeOK
<1>1. AgentsInv => AgentsTypeOK
  <2> SUFFICES ASSUME AgentsInv PROVE AgentsTypeOK
    OBVIOUS
  <2>1. live \in [DOMAIN live -> AgentSpec] /\ DOMAIN live \in SUBSET LegalName
    BY DEF AgentsInv, Registry, Dict
  <2>2. retired \in [DOMAIN retired -> AgentSpec] /\ DOMAIN retired \in SUBSET LegalName
    BY DEF AgentsInv, Registry, Dict
  <2>3. roster \subseteq AgentSpec /\ decision \in RouteAnswer
    BY DEF AgentsInv, StillListed, Routed
  <2> QED BY <2>1, <2>2, <2>3 DEF AgentsTypeOK
<1> QED BY <1>1, Reached, PTL

\* A name, once given, means one agent for good, retired and restored as it may be
\* (registry.py, create: a retired name is taken too).
THEOREM NamesAreForGood == AgentsSpec => NameMeansOneAgent
<1>1. AgentsInv /\ [AgentsNext]_agentsVars =>
        [\A name \in Known : /\ Exists(name, TRUE)'
                             /\ Get(name, TRUE)' = Get(name, TRUE)]_agentsVars
  BY AgentsNextInv DEF NamesKept, Known, Exists
<1> QED BY <1>1, Reached, PTL DEF AgentsSpec, NameMeansOneAgent

\* A route stays true however the registry changes after it, and it never guesses
\* (routing.py, route: one match is selected, several are ambiguous).
THEOREM RoutesHold == AgentsSpec => []RouteStillHolds
<1>1. AgentsInv => RouteStillHolds
  <2> SUFFICES ASSUME AgentsInv PROVE RouteStillHolds
    OBVIOUS
  <2> DEFINE C == decision.candidates
  <2>1. C = Matched(decision.message, decision.among) /\ C \subseteq decision.among
    BY DEF AgentsInv, Routed, Matched
  <2>2. \A s \in C : Get(s.name, TRUE) = s
    BY <2>1 DEF AgentsInv, StillListed
  <2>3. \A s \in decision.among : s \notin C => TriggerHits(decision.message, s) = {}
    BY <2>1 DEF Matched
  <2>4. ASSUME Selected # NoAgent
        PROVE  \A s \in decision.among \ {Selected} : TriggerHits(decision.message, s) = {}
    <3>1. decision.decision = "matched" /\ Selected = CHOOSE s \in C : TRUE
      BY <2>4 DEF Selected
    <3>2. Cardinality(C) = 1
      BY <3>1 DEF AgentsInv, Routed, RouteDecision
    <3>3. IsFiniteSet(C)
      BY <2>1, FS_Subset DEF AgentsInv, StillListed
    <3>4. PICK x : C = {x}
      BY <3>2, <3>3, FS_Singleton
    <3>5. Selected = x
      BY <3>1, <3>4
    <3> QED BY <2>3, <3>4, <3>5
  <2>5. ASSUME decision.decision = "default"
        PROVE  \A s \in decision.among : TriggerHits(decision.message, s) = {}
    BY <2>3, <2>5 DEF AgentsInv, Routed, RouteDecision
  <2> QED BY <2>2, <2>4, <2>5 DEF RouteStillHolds
<1> QED BY <1>1, Reached, PTL

-----------------------------------------------------------------------------
(* Cards of peers. *)

\* What a document carries was signed, by whomever and over whatever.
Carried == document = Unreadable \/ (document \in Document /\ document.signature \in signed)

PeersTypeOK == peers \subseteq [peer : Peer, offered : SUBSET Tool]

CardsInv ==
    /\ Carried
    /\ known_keys \subseteq SigningKey
    /\ signed \subseteq Signature
    /\ PeersTypeOK
    /\ PeersAreAuthentic

LEMMA OfferIsNarrow ==
    ASSUME NEW peer \in Peer
    PROVE  PeerEffectiveTools(peer) \subseteq
               (Names(PeerAllowlist) \cap Names(peer.advertised_tools) \cap Tool) \ DangerousTools
<1>1. peer.advertised_tools # NotDeclared
  BY CardAssumption DEF Peer
<1>2. Names(PeerAllowlist) \subseteq Tool
  BY CardAssumption, SpellingAssumption DEF Names
<1> QED BY <1>1, <1>2 DEF PeerEffectiveTools, EffectiveTools

LEMMA EmitKeeps ==
    ASSUME CardsInv, NEW name \in CardName, NEW allowed_tools \in CardTools, NEW key \in SigningKey,
           Emit(name, allowed_tools, key)
    PROVE  CardsInv'
<1> DEFINE payload == CardOf(name, allowed_tools)
           signature == [over |-> payload, by |-> key]
<1>1. /\ signed' = signed \cup {signature}
      /\ document' = [shape |-> "card", payload |-> payload, signature |-> signature,
                      key_id |-> key]
      /\ UNCHANGED <<known_keys, peers>>
  BY DEF Emit
<1>2. payload \in Payload
  BY DEF CardOf, Payload
<1> HIDE DEF payload
<1>3. signature \in Signature
  BY <1>2 DEF Signature
<1>4. document' \in Document /\ document'.signature \in signed'
  BY <1>1, <1>2, <1>3 DEF Document
<1>5. signed' \subseteq Signature /\ signed \subseteq signed'
  BY <1>1, <1>3 DEF CardsInv
<1> QED BY <1>1, <1>4, <1>5 DEF CardsInv, Carried, PeersTypeOK, PeersAreAuthentic

LEMMA MixedKeeps ==
    ASSUME CardsInv, NEW payload \in Payload, NEW signature \in signed, NEW key_id \in SigningKey,
           Mixed(payload, signature, key_id)
    PROVE  CardsInv'
<1>1. signature \in Signature
  BY DEF CardsInv
<1>2. document' \in Document /\ document'.signature \in signed
  BY <1>1 DEF Mixed, Document
<1> QED BY <1>2 DEF Mixed, CardsInv, Carried, PeersTypeOK, PeersAreAuthentic

LEMMA ConsumeKeeps ==
    ASSUME CardsInv, Consume
    PROVE  CardsInv'
<1> DEFINE peer == PeerAgent(document)
           p == [peer |-> peer, offered |-> PeerEffectiveTools(peer)]
<1>1. /\ peers' = {p}
      /\ UNCHANGED <<document, known_keys, signed>>
  BY DEF Consume
<1>2. document.shape = "card" /\ Verifies(document) /\ document.payload.name # NoName
  BY DEF Consume, Accepts
<1>3. document \in Document /\ document.signature \in signed
  BY <1>2 DEF CardsInv, Carried, Unreadable
<1>4. /\ document.payload \in Payload
      /\ document.signature = [over |-> document.payload, by |-> document.key_id]
  BY <1>2, <1>3 DEF Verifies, Document
<1>5. peer \in Peer
  BY <1>2, <1>3, <1>4 DEF PeerAgent, Peer, Payload, Document
<1>6. CardOf(peer.name, peer.advertised_tools) = document.payload /\ peer.key_id = document.key_id
  BY <1>4 DEF CardOf, PeerAgent, Payload
<1> HIDE DEF peer
<1>7. PeersTypeOK'
  BY <1>1, <1>5, OfferIsNarrow DEF PeersTypeOK
<1>8. PeersAreAuthentic'
  <2>1. [over |-> CardOf(peer.name, peer.advertised_tools), by |-> peer.key_id] \in signed
    BY <1>3, <1>4, <1>6
  <2> QED BY <1>1, <1>5, <2>1, OfferIsNarrow DEF PeersAreAuthentic
<1> QED BY <1>1, <1>7, <1>8 DEF CardsInv, Carried

LEMMA CardsNextInv ==
    ASSUME CardsInv, [CardsNext]_cardsVars
    PROVE  CardsInv'
<1>1. CASE Garbled
  BY <1>1 DEF Garbled, CardsInv, Carried, PeersTypeOK, PeersAreAuthentic
<1>2. ASSUME NEW keys \in SUBSET SigningKey, KeyRotates(keys)
      PROVE  CardsInv'
  BY <1>2 DEF KeyRotates, CardsInv, Carried, PeersTypeOK, PeersAreAuthentic
<1>3. CASE UNCHANGED cardsVars
  BY <1>3 DEF cardsVars, CardsInv, Carried, PeersTypeOK, PeersAreAuthentic
<1> QED BY <1>1, <1>2, <1>3, EmitKeeps, MixedKeeps, ConsumeKeeps DEF CardsNext

LEMMA CardsReached == CardsSpec => []CardsInv
<1>1. CardsInit => CardsInv
  BY DEF CardsInit, CardsInv, Carried, PeersTypeOK, PeersAreAuthentic
<1>2. CardsInv /\ [CardsNext]_cardsVars => CardsInv'
  BY CardsNextInv
<1> QED BY <1>1, <1>2, PTL DEF CardsSpec

\* Cards and peers have the types of a2a/cards.py, and so has what our agent is offered.
THEOREM CardsTypeCorrect == CardsSpec => []CardsTypeOK
<1>1. CardsInv => CardsTypeOK
  BY DEF CardsInv, CardsTypeOK, Carried, PeersTypeOK
<1> QED BY <1>1, CardsReached, PTL

\* Whatever is cut, mixed or replayed between the two, a peer says what the holder of its
\* key signed and offers no more than our allowlist has (cards.py, consume_card: the
\* signature covers the whole payload).
THEOREM CardsAreAuthentic == CardsSpec => []PeersAreAuthentic
<1>1. CardsInv => PeersAreAuthentic
  BY DEF CardsInv
<1> QED BY <1>1, CardsReached, PTL

-----------------------------------------------------------------------------
(* Tokens. *)

FlowRecord ==
    [stage : Stage, resource : Resource \cup {NoResource},
     authorization_servers : SUBSET Issuer, mode : {"none", "cimd", "dcr"}]

\* From the document on, a flow has the resource it goes to.
FlowsOK ==
    /\ flow \in [Flow -> FlowRecord]
    /\ \A f \in Flow :
        flow[f].stage \in {"parsed", "registered", "authorizing", "done"} => flow[f].resource \in Resource

\* A code comes back with the state of the flow whose verifier opens it.
CodesOK ==
    /\ issued \subseteq Code
    /\ redirects \subseteq [code : Code, state : Flow]
    /\ \A r \in redirects : r.code.code_challenge = Challenge(r.state)

\* A token was got by the flow that asked, for the resource of it or for none.
TokenOK(t) ==
    /\ flow[t.got_by].stage = "done" /\ t.asked_by = t.got_by
    /\ t.aud = NoAudience \/ t.aud \subseteq {flow[t.got_by].resource, DefaultAudience}

TokensOK == held \subseteq Token /\ \A t \in held : TokenOK(t)

OAuthInv ==
    /\ FlowsOK /\ CodesOK /\ TokensOK
    /\ accepted \subseteq [token : Token, at : Resource]
    /\ TokenStaysWithItsFlow

\* A flow that moves is not one that is done, and those that are stay as they are.
DoneStays == \A f \in Flow : flow[f].stage = "done" => flow'[f] = flow[f]

LEMMA FlowMoves ==
    ASSUME OAuthInv, DoneStays, FlowsOK', CodesOK', UNCHANGED <<held, accepted>>
    PROVE  OAuthInv'
<1>1. \A t \in held : t.got_by \in Flow /\ flow'[t.got_by] = flow[t.got_by]
  BY DEF OAuthInv, TokensOK, TokenOK, Token, DoneStays
<1>2. TokensOK'
  BY <1>1 DEF OAuthInv, TokensOK, TokenOK
<1>3. \A a \in accepted : a.token.got_by \in Flow /\ flow'[a.token.got_by] = flow[a.token.got_by]
  BY DEF OAuthInv, TokenStaysWithItsFlow, Token, DoneStays
<1>4. TokenStaysWithItsFlow'
  BY <1>3 DEF OAuthInv, TokenStaysWithItsFlow
<1> QED BY <1>2, <1>4 DEF OAuthInv

\* Steps that change a flow before its user was sent away.
LEMMA EarlySteps ==
    ASSUME OAuthInv, NEW f \in Flow,
           \/ \E bearer, metadata_url \in BOOLEAN : Challenged(f, bearer, metadata_url)
           \/ \E d \in Metadata : Parse(f, d)
           \/ \E url, endpoint \in BOOLEAN : Register(f, url, endpoint)
           \/ GiveUp(f)
    PROVE  OAuthInv'
<1>1. flow[f] \in FlowRecord
  BY DEF OAuthInv, FlowsOK
<1>2. UNCHANGED <<issued, redirects, held, accepted>>
  BY DEF Challenged, Parse, Register, GiveUp
<1>3. ASSUME NEW bearer \in BOOLEAN, NEW metadata_url \in BOOLEAN,
             Challenged(f, bearer, metadata_url)
      PROVE  FlowsOK' /\ DoneStays
  BY <1>1, <1>3 DEF Challenged, At, Moves, OAuthInv, FlowsOK, DoneStays, FlowRecord, Stage
<1>4. ASSUME NEW d \in Metadata, Parse(f, d)
      PROVE  FlowsOK' /\ DoneStays
  <2>1. d.resource \in Resource \cup {NoResource} /\ d.authorization_servers \in SUBSET Issuer
    BY DEF Metadata
  <2>2. flow[f].stage = "challenged" /\ flow \in [Flow -> FlowRecord]
    BY <1>4 DEF Parse, At, OAuthInv, FlowsOK
  <2>3. CASE d.resource # NoResource /\ d.authorization_servers # {}
    <3> DEFINE g == [flow[f] EXCEPT !.stage = "parsed", !.resource = d.resource,
                                    !.authorization_servers = d.authorization_servers]
    <3>1. flow' = [flow EXCEPT ![f] = g]
      BY <1>4, <2>3 DEF Parse
    <3>2. g \in FlowRecord /\ g.resource \in Resource
      BY <1>1, <2>1, <2>3 DEF FlowRecord, Stage
    <3> HIDE DEF g
    <3> QED BY <2>2, <3>1, <3>2 DEF OAuthInv, FlowsOK, DoneStays
  <2>4. CASE ~(d.resource # NoResource /\ d.authorization_servers # {})
    <3>1. flow' = [flow EXCEPT ![f].stage = "failed"]
      BY <1>4, <2>4 DEF Parse, Moves
    <3> QED BY <1>1, <2>2, <3>1 DEF OAuthInv, FlowsOK, DoneStays, FlowRecord, Stage
  <2> QED BY <2>3, <2>4
<1>5. ASSUME NEW url \in BOOLEAN, NEW endpoint \in BOOLEAN, Register(f, url, endpoint)
      PROVE  FlowsOK' /\ DoneStays
  <2>1. Registration(url, endpoint) \in {"none", "cimd", "dcr"}
    BY DEF Registration
  <2> QED BY <1>1, <1>5, <2>1 DEF Register, At, OAuthInv, FlowsOK, DoneStays, FlowRecord, Stage
<1>6. ASSUME GiveUp(f)
      PROVE  FlowsOK' /\ DoneStays
  BY <1>1, <1>6 DEF GiveUp, Moves, OAuthInv, FlowsOK, DoneStays, FlowRecord, Stage
<1>7. CodesOK'
  BY <1>2 DEF OAuthInv, CodesOK
<1> QED BY <1>2, <1>3, <1>4, <1>5, <1>6, <1>7, FlowMoves

LEMMA AuthorizeKeeps ==
    ASSUME OAuthInv, NEW f \in Flow, NEW issuer \in Issuer, Authorize(f, issuer)
    PROVE  OAuthInv'
<1> DEFINE code == [issuer |-> issuer, code_challenge |-> Challenge(f), resource |-> flow[f].resource]
<1>1. /\ flow[f].stage = "registered" /\ flow' = [flow EXCEPT ![f].stage = "authorizing"]
      /\ issued' = issued \cup {code}
      /\ redirects' = redirects \cup {[code |-> code, state |-> f]}
      /\ UNCHANGED <<held, accepted>>
  BY DEF Authorize, At, Moves, AuthorizationRequest
<1>2. flow[f] \in FlowRecord /\ flow[f].resource \in Resource
  BY <1>1 DEF OAuthInv, FlowsOK
<1>3. FlowsOK' /\ DoneStays
  BY <1>1, <1>2 DEF OAuthInv, FlowsOK, DoneStays, FlowRecord, Stage
<1>4. code \in Code /\ code.code_challenge = Challenge(f)
  BY <1>2 DEF Code
<1> HIDE DEF code
<1>5. CodesOK'
  BY <1>1, <1>4 DEF OAuthInv, CodesOK
<1> QED BY <1>1, <1>3, <1>5, FlowMoves

LEMMA ExchangeKeeps ==
    ASSUME OAuthInv, NEW f \in Flow, NEW redirect \in redirects,
           NEW audience \in (SUBSET (Resource \cup {DefaultAudience})) \cup {NoAudience},
           Exchange(f, redirect, audience)
    PROVE  OAuthInv'
<1> DEFINE request == TokenRequest(f, redirect.code)
           token == [got_by |-> f, asked_by |-> redirect.state, aud |-> audience]
<1>1. /\ flow[f].stage = "authorizing" /\ audience \in Audiences(request)
      /\ redirects' = redirects \ {redirect} /\ issued' = issued \ {redirect.code}
      /\ UNCHANGED accepted
  BY DEF Exchange, At
<1>2. CodesOK'
  BY <1>1 DEF OAuthInv, CodesOK
<1>3. flow[f] \in FlowRecord /\ flow[f].resource \in Resource
  BY <1>1 DEF OAuthInv, FlowsOK
<1>4. CASE Redeems(request)
  <2>1. /\ held' = held \cup {token}
        /\ flow' = [flow EXCEPT ![f].stage = "done"]
    BY <1>4 DEF Exchange, Moves
  <2>2. FlowsOK' /\ DoneStays
    BY <1>1, <1>3, <2>1 DEF OAuthInv, FlowsOK, DoneStays, FlowRecord, Stage
  <2>3. redirect.state = f
    <3>1. Challenge(f) = redirect.code.code_challenge
      BY <1>4 DEF Redeems, TokenRequest
    <3>2. redirect.code.code_challenge = Challenge(redirect.state)
      BY DEF OAuthInv, CodesOK
    <3> QED BY <3>1, <3>2 DEF Challenge
  <2>4. audience = NoAudience \/ audience \subseteq {flow[f].resource, DefaultAudience}
    BY <1>1 DEF Audiences, TokenRequest
  <2>5. flow'[f].stage = "done" /\ flow'[f].resource = flow[f].resource
    BY <1>3, <2>1 DEF OAuthInv, FlowsOK, FlowRecord
  <2>6. token \in Token /\ TokenOK(token)'
    BY <2>3, <2>4, <2>5 DEF Token, TokenOK
  <2>7. \A t \in held : t.got_by \in Flow /\ flow'[t.got_by] = flow[t.got_by]
    BY <2>2 DEF OAuthInv, TokensOK, TokenOK, Token, DoneStays
  <2> HIDE DEF token
  <2>8. TokensOK'
    BY <2>1, <2>6, <2>7 DEF OAuthInv, TokensOK, TokenOK
  <2>9. \A a \in accepted : a.token.got_by \in Flow /\ flow'[a.token.got_by] = flow[a.token.got_by]
    BY <2>2 DEF OAuthInv, TokenStaysWithItsFlow, Token, DoneStays
  <2>10. TokenStaysWithItsFlow'
    BY <1>1, <2>9 DEF OAuthInv, TokenStaysWithItsFlow
  <2> QED BY <1>1, <1>2, <2>2, <2>8, <2>10 DEF OAuthInv
<1>5. CASE ~Redeems(request)
  <2>1. UNCHANGED held /\ flow' = [flow EXCEPT ![f].stage = "failed"]
    BY <1>5 DEF Exchange, Moves
  <2>2. FlowsOK' /\ DoneStays
    BY <1>1, <1>3, <2>1 DEF OAuthInv, FlowsOK, DoneStays, FlowRecord, Stage
  <2> QED BY <1>1, <1>2, <2>1, <2>2, FlowMoves
<1> QED BY <1>4, <1>5

LEMMA PresentKeeps ==
    ASSUME OAuthInv, NEW token \in held, NEW resource \in Resource, Present(token, resource)
    PROVE  OAuthInv'
<1>1. /\ accepted' = accepted \cup {[token |-> token, at |-> resource]}
      /\ UNCHANGED <<flow, issued, redirects, held>>
      /\ token.aud # NoAudience /\ resource \in token.aud
  BY DEF Present, ValidateTokenAudience
<1>2. token \in Token /\ TokenOK(token)
  BY DEF OAuthInv, TokensOK
<1>3. resource = flow[token.got_by].resource
  BY <1>1, <1>2, OAuthAssumption DEF TokenOK
<1>4. TokenStaysWithItsFlow'
  BY <1>1, <1>2, <1>3 DEF OAuthInv, TokenStaysWithItsFlow, TokenOK
<1> QED BY <1>1, <1>2, <1>4 DEF OAuthInv, FlowsOK, CodesOK, TokensOK, TokenOK

LEMMA OAuthInitInv ==
    ASSUME OAuthInit
    PROVE  OAuthInv
<1>1. FlowsOK
  BY DEF OAuthInit, FlowsOK, FlowRecord, Stage, NoIssuer
<1> QED BY <1>1 DEF OAuthInit, OAuthInv, CodesOK, TokensOK, TokenStaysWithItsFlow

LEMMA OAuthNextInv ==
    ASSUME OAuthInv, [OAuthNext]_oauthVars
    PROVE  OAuthInv'
<1>1. CASE UNCHANGED oauthVars
  BY <1>1 DEF oauthVars, OAuthInv, FlowsOK, CodesOK, TokensOK, TokenOK, TokenStaysWithItsFlow
<1>2. ASSUME NEW f \in Flow,
             \/ \E bearer, metadata_url \in BOOLEAN : Challenged(f, bearer, metadata_url)
             \/ \E d \in Metadata : Parse(f, d)
             \/ \E url, endpoint \in BOOLEAN : Register(f, url, endpoint)
             \/ GiveUp(f)
      PROVE  OAuthInv'
  BY <1>2, EarlySteps
<1>3. ASSUME NEW f \in Flow, NEW issuer \in Issuer, Authorize(f, issuer)
      PROVE  OAuthInv'
  BY <1>3, AuthorizeKeeps
<1>4. ASSUME NEW f \in Flow, NEW redirect \in redirects,
             NEW audience \in (SUBSET (Resource \cup {DefaultAudience})) \cup {NoAudience},
             Exchange(f, redirect, audience)
      PROVE  OAuthInv'
  BY <1>4, ExchangeKeeps
<1>5. ASSUME NEW token \in held, NEW resource \in Resource, Present(token, resource)
      PROVE  OAuthInv'
  BY <1>5, PresentKeeps
<1> QED BY <1>1, <1>2, <1>3, <1>4, <1>5 DEF OAuthNext

LEMMA OAuthReached == OAuthSpec => []OAuthInv
<1>1. OAuthInit => OAuthInv
  BY OAuthInitInv
<1>2. OAuthInv /\ [OAuthNext]_oauthVars => OAuthInv'
  BY OAuthNextInv
<1> QED BY <1>1, <1>2, PTL DEF OAuthSpec

\* Flows, codes and tokens have the types of authz/oauth.py.
THEOREM FlowsTypeCorrect == OAuthSpec => []OAuthTypeOK
<1>1. OAuthInv => OAuthTypeOK
  BY DEF OAuthInv, OAuthTypeOK, FlowsOK, FlowRecord, CodesOK, TokensOK
<1> QED BY <1>1, OAuthReached, PTL

\* However many flows are under way and whichever code comes back first, a token is
\* accepted only where its own flow was going (oauth.py: the S256 challenge, the resource
\* on both requests, and validate_token_audience).
THEOREM TokensStay == OAuthSpec => []TokenStaysWithItsFlow
<1>1. OAuthInv => TokenStaysWithItsFlow
  BY DEF OAuthInv
<1> QED BY <1>1, OAuthReached, PTL

-----------------------------------------------------------------------------
(* Mcp. *)

\* The parts of the type invariant that steps disturb together.
ServerTypeOK == server \in OurServer \cup {Foreign}
ClientTypeOK == discovery \in [version : {RequestedProtocolVersion, Missing}, tools : SUBSET ToolFound]
WireTypeOK == wire \subseteq Request /\ sent \in 0 .. MaxRequests
InvokedTypeOK ==
    invoked \subseteq [tool : Tool, by : {"client", "stranger"}, allowed_tools : SUBSET Spelling]
ToldTypeOK ==
    told \subseteq [as : {"MCPResult", "InputRequired", "MCPProtocolError"}, error : BOOLEAN,
                    did : Dids]
AdvertisedTypeOK == advertised \subseteq Advertisement

\* The result says on the wire what came of the call.
IsTrue(result) ==
    /\ result \in Outcome
    /\ result.result_type = "input_required" <=> result.did \in {"parked", "input_required"}
    /\ (result.result_type = "complete" /\ ~result.is_error) <=> result.did \in {"returned", "complete"}

\* A call of ours that is under way is one our allowlist has, and an answer that is
\* under way is one that a server gave.
RequestOK(r) ==
    /\ r.method = "tools/call" /\ r.by = "client" => r.name \in Names(ClientAllowlist)
    /\ r.method = "server/discover" /\ r.answer # Waiting =>
          r.answer \in advertised \cup {NoAdvertisement}
    /\ r.method = "tools/call" /\ r.answer # Waiting => IsTrue(r.answer)

UnderWay == \A r \in wire : RequestOK(r)

\* The inductive invariant.
McpInv ==
    /\ ServerTypeOK /\ ClientTypeOK /\ WireTypeOK /\ InvokedTypeOK /\ ToldTypeOK /\ AdvertisedTypeOK
    /\ UnderWay
    /\ InvokedWithinBoth
    /\ AnswersTakenWhole

LEMMA McpTypeParts ==
    McpTypeOK <=> /\ ServerTypeOK /\ ClientTypeOK /\ WireTypeOK
                  /\ InvokedTypeOK /\ ToldTypeOK /\ AdvertisedTypeOK
BY DEF McpTypeOK, ServerTypeOK, ClientTypeOK, WireTypeOK, InvokedTypeOK, ToldTypeOK,
       AdvertisedTypeOK

-----------------------------------------------------------------------------
(* The operators. *)

\* Narrowing only takes away, and a dangerous tool is never left.
LEMMA NarrowingBounds ==
    ASSUME NEW fixed_allowlist, NEW declared
    PROVE  EffectiveTools(fixed_allowlist, declared) \subseteq Names(fixed_allowlist) \ DangerousTools
BY DEF EffectiveTools

LEMMA NamesAreTools ==
    ASSUME NEW spelled \in SUBSET Spelling
    PROVE  Names(spelled) \subseteq Tool
BY SpellingAssumption DEF Names

LEMMA ServerAllows ==
    ASSUME NEW s \in OurServer
    PROVE  AdvertisedTools(s) \subseteq (Names(s.allowed_tools) \ DangerousTools) \cap Tool
<1>1. s.allowed_tools \in SUBSET Spelling
  BY DEF OurServer
<1> QED BY <1>1, NarrowingBounds, NamesAreTools DEF AdvertisedTools

\* What our server answers a discover with is an advertisement.
LEMMA DiscoverIsOne ==
    ASSUME NEW s \in OurServer
    PROVE  Discover(s) \in Advertisement
<1>1. AdvertisedTools(s) \subseteq Spelling
  BY ServerAllows, SpellingAssumption
<1> QED BY <1>1 DEF Discover, Advertisement, AdvertisedProtocolVersion, RequestedProtocolVersion,
                    Version

LEMMA ParsedIsWhole ==
    ASSUME NEW answer \in Advertisement, Parses(answer)
    PROVE  /\ Parsed(answer) \in [version : {RequestedProtocolVersion, Missing},
                                  tools : SUBSET ToolFound]
           /\ {t.name : t \in Parsed(answer).tools} = {MapTool(entry) : entry \in answer.tools}
           /\ answer.version = RequestedProtocolVersion
<1>1. \A entry \in answer.tools : MapTool(entry) \in Tool
  BY SpellingAssumption, Zenon DEF Advertisement, MapTool, Parses
<1>2. TaintForKind("mcp_server") = "foreign_skill"
  BY DEF TaintForKind
<1>3. Parsed(answer) = [version |-> RequestedProtocolVersion,
                        tools |-> {[name |-> MapTool(entry), taints |-> {"foreign_skill"}]
                                       : entry \in answer.tools}]
  <2>1. {e \in answer.tools : MapTool(e) # Blank} = answer.tools
    BY DEF Parses
  <2> QED BY <1>2, <2>1 DEF Parsed, Parses
<1>4. \A entry \in answer.tools :
          [name |-> MapTool(entry), taints |-> {"foreign_skill"}] \in ToolFound
  BY <1>1 DEF ToolFound
<1>5. Parsed(answer) \in [version : {RequestedProtocolVersion, Missing}, tools : SUBSET ToolFound]
  BY <1>3, <1>4
<1>6. {t.name : t \in Parsed(answer).tools} = {MapTool(entry) : entry \in answer.tools}
  <2>1. Parsed(answer).tools = {[name |-> MapTool(entry), taints |-> {"foreign_skill"}]
                                    : entry \in answer.tools}
    BY <1>3
  <2>2. ASSUME NEW t \in Parsed(answer).tools
        PROVE  t.name \in {MapTool(entry) : entry \in answer.tools}
    BY <2>1
  <2>3. ASSUME NEW entry \in answer.tools
        PROVE  MapTool(entry) \in {t.name : t \in Parsed(answer).tools}
    <3>1. [name |-> MapTool(entry), taints |-> {"foreign_skill"}] \in Parsed(answer).tools
      BY <2>1
    <3> QED BY <3>1
  <2> QED BY <2>2, <2>3
<1> QED BY <1>5, <1>6 DEF Parses

\* What a server that is ours, or is not, says of a call is true.
LEMMA ResultsAreTrue ==
    /\ \A did \in {"returned", "misshapen", "parked"} : IsTrue(ResultOf(did))
    /\ IsTrue(ErrorResult("denied"))
    /\ \A t \in {"complete", "input_required", "other"} : IsTrue(Result(t, FALSE, t))
BY DEF IsTrue, ResultOf, ErrorResult, Result, Outcome, Dids

-----------------------------------------------------------------------------
(* The wire. *)

LEMMA SendKeeps ==
    ASSUME McpInv,
           NEW method \in {"server/discover", "tools/call"}, NEW name \in Spelling \cup {Blank},
           NEW by \in {"client", "stranger"}, NEW version \in Version \cup {Missing},
           method = "tools/call" /\ by = "client" => name \in Names(ClientAllowlist),
           Send(method, name, by, version)
    PROVE  McpInv'
<1> DEFINE r == [id |-> sent', method |-> method, name |-> name, by |-> by,
                 version |-> version, answer |-> Waiting]
<1>1. /\ wire' = wire \cup {r} /\ sent' \in 1 .. MaxRequests
      /\ UNCHANGED <<server, discovery, invoked, told, advertised>>
  BY McpAssumption DEF Send, McpInv, WireTypeOK
<1>2. r \in Request
  BY <1>1 DEF Request
<1>3. RequestOK(r)
  BY DEF RequestOK
<1>4. WireTypeOK'
  BY <1>1, <1>2, McpAssumption DEF McpInv, WireTypeOK
<1>5. UnderWay'
  <2> HIDE DEF r
  <2> QED BY <1>1, <1>3 DEF McpInv, UnderWay, RequestOK
<1> QED BY <1>1, <1>4, <1>5 DEF McpInv, ServerTypeOK, ClientTypeOK, InvokedTypeOK, ToldTypeOK,
          AdvertisedTypeOK, InvokedWithinBoth, AnswersTakenWhole

\* One request is answered, and an advertisement may be noted.
LEMMA AnswerKeeps ==
    ASSUME McpInv, NEW request \in wire, NEW answer \in Advertisement \cup Outcome,
           Answer(request, answer), advertised \subseteq advertised',
           request.method = "server/discover" => answer \in advertised' \cup {NoAdvertisement},
           request.method = "tools/call" => IsTrue(answer),
           UNCHANGED sent
    PROVE  WireTypeOK' /\ UnderWay'
<1> DEFINE r == [request EXCEPT !.answer = answer]
<1>1. request \in Request /\ RequestOK(request)
  BY DEF McpInv, WireTypeOK, UnderWay
<1>2. r \in Request /\ r.answer = answer /\ r.method = request.method /\ r.by = request.by
      /\ r.name = request.name
  BY <1>1 DEF Request
<1>3. wire' = (wire \ {request}) \cup {r}
  BY DEF Answer
<1> HIDE DEF r
<1>4. RequestOK(r)'
  <2>1. r' = r
    BY DEF r
  <2> QED BY <1>1, <1>2 DEF RequestOK
<1>5. \A q \in wire \ {request} : RequestOK(q)'
  BY DEF McpInv, UnderWay, RequestOK
<1>6. WireTypeOK'
  BY <1>2, <1>3 DEF McpInv, WireTypeOK
<1> QED BY <1>3, <1>4, <1>5, <1>6 DEF UnderWay, RequestOK

\* One request leaves the wire.
LEMMA TakenKeeps ==
    ASSUME McpInv, NEW request, wire' = wire \ {request}, UNCHANGED <<sent, advertised>>
    PROVE  WireTypeOK' /\ UnderWay'
BY DEF McpInv, WireTypeOK, UnderWay, RequestOK

-----------------------------------------------------------------------------
(* The invariant. *)

LEMMA McpInitInv ==
    ASSUME McpInit
    PROVE  McpInv
BY McpAssumption DEF McpInit, McpInv, ServerTypeOK, ClientTypeOK, WireTypeOK, InvokedTypeOK,
       ToldTypeOK, AdvertisedTypeOK, UnderWay, InvokedWithinBoth, AnswersTakenWhole, NoDiscovery

LEMMA SentKeeps ==
    ASSUME McpInv,
           \/ AskDiscover
           \/ \E name \in Tool : CallTool(name)
           \/ \E name \in Spelling, version \in Version \cup {Missing} : StrangerCalls(name, version)
    PROVE  McpInv'
<1>1. RequestedProtocolVersion \in Version
  BY DEF RequestedProtocolVersion, Version
<1>2. CASE AskDiscover
  BY <1>1, <1>2, SendKeeps DEF AskDiscover
<1>3. ASSUME NEW name \in Tool, CallTool(name)
      PROVE  McpInv'
  <2>1. name \in Names(ClientAllowlist)
    BY <1>3, NarrowingBounds DEF CallTool, ListTools
  <2>2. name \in Spelling \cup {Blank}
    BY SpellingAssumption
  <2>3. Send("tools/call", name, "client", RequestedProtocolVersion)
    BY <1>3 DEF CallTool
  <2> QED BY <1>1, <2>1, <2>2, <2>3, SendKeeps
<1>4. ASSUME NEW name \in Spelling, NEW version \in Version \cup {Missing},
             StrangerCalls(name, version)
      PROVE  McpInv'
  BY <1>4, SendKeeps DEF StrangerCalls
<1> QED BY <1>2, <1>3, <1>4

LEMMA HandleDiscoverKeeps ==
    ASSUME McpInv, NEW request \in wire, HandleDiscover(request)
    PROVE  McpInv'
<1> DEFINE answer == IF MetaOK(request) THEN Discover(server) ELSE NoAdvertisement
<1>1. /\ server \in OurServer /\ request.method = "server/discover"
      /\ Answer(request, answer)
      /\ advertised' = IF MetaOK(request) THEN advertised \cup {answer} ELSE advertised
      /\ UNCHANGED <<server, discovery, sent, invoked, told>>
  BY DEF HandleDiscover, McpInv, ServerTypeOK
<1>2. NoAdvertisement \in Advertisement
  BY DEF NoAdvertisement, Advertisement
<1>3. answer \in Advertisement /\ answer \in advertised' \cup {NoAdvertisement}
  BY <1>1, <1>2, DiscoverIsOne
<1>4. advertised' \subseteq Advertisement /\ advertised \subseteq advertised'
  BY <1>1, <1>3 DEF McpInv, AdvertisedTypeOK
<1> HIDE DEF answer
<1>5. WireTypeOK' /\ UnderWay'
  BY <1>1, <1>3, <1>4, AnswerKeeps
<1>6. AnswersTakenWhole'
  BY <1>1, <1>4 DEF McpInv, AnswersTakenWhole
<1> QED BY <1>1, <1>4, <1>5, <1>6 DEF McpInv, ServerTypeOK, ClientTypeOK, InvokedTypeOK,
          ToldTypeOK, AdvertisedTypeOK, InvokedWithinBoth

LEMMA HandleCallKeeps ==
    ASSUME McpInv, NEW request \in wire, NEW did \in {"returned", "misshapen", "parked"},
           HandleCall(request, did)
    PROVE  McpInv'
<1> DEFINE call == [tool |-> request.name, by |-> request.by, allowed_tools |-> server.allowed_tools]
<1>1. /\ server \in OurServer /\ request.method = "tools/call"
      /\ UNCHANGED <<server, discovery, sent, told, advertised>>
  BY DEF HandleCall, McpInv, ServerTypeOK
<1>2. request \in Request /\ RequestOK(request)
  BY DEF McpInv, WireTypeOK, UnderWay
<1>3. CASE MetaOK(request) /\ MayInvoke(server, request.name)
  <2>1. Answer(request, ResultOf(did)) /\ invoked' = invoked \cup {call}
    BY <1>3 DEF HandleCall
  <2>2. WireTypeOK' /\ UnderWay'
    <3>1. IsTrue(ResultOf(did)) /\ ResultOf(did) \in Outcome
      BY ResultsAreTrue DEF IsTrue
    <3> QED BY <1>1, <2>1, <3>1, AnswerKeeps
  <2>3. /\ request.name \in (Names(server.allowed_tools) \ DangerousTools) \cap Tool
        /\ server.allowed_tools \in SUBSET Spelling
    BY <1>1, <1>3, ServerAllows DEF MayInvoke, OurServer
  <2>4. InvokedTypeOK'
    BY <1>2, <2>1, <2>3 DEF McpInv, InvokedTypeOK, Request
  <2>5. InvokedWithinBoth'
    BY <1>1, <1>2, <2>1, <2>3 DEF McpInv, InvokedWithinBoth, RequestOK
  <2> QED BY <1>1, <2>2, <2>4, <2>5 DEF McpInv, ServerTypeOK, ClientTypeOK, ToldTypeOK,
            AdvertisedTypeOK, AnswersTakenWhole
<1>4. CASE ~(MetaOK(request) /\ MayInvoke(server, request.name))
  <2>1. Answer(request, ErrorResult("denied")) /\ UNCHANGED invoked
    BY <1>4 DEF HandleCall
  <2>2. WireTypeOK' /\ UnderWay'
    <3>1. IsTrue(ErrorResult("denied")) /\ ErrorResult("denied") \in Outcome
      BY ResultsAreTrue DEF IsTrue
    <3> QED BY <1>1, <2>1, <3>1, AnswerKeeps
  <2> QED BY <1>1, <2>1, <2>2 DEF McpInv, ServerTypeOK, ClientTypeOK, ToldTypeOK,
            AdvertisedTypeOK, AnswersTakenWhole, InvokedTypeOK, InvokedWithinBoth
<1> QED BY <1>3, <1>4

LEMMA ForeignKeeps ==
    ASSUME McpInv, NEW request \in wire,
           \/ \E answer \in ForeignAnswers : ForeignDiscover(request, answer)
           \/ \E t \in {"complete", "input_required", "other"} : ForeignCall(request, t)
    PROVE  McpInv'
<1>1. ASSUME NEW answer \in ForeignAnswers, ForeignDiscover(request, answer)
      PROVE  McpInv'
  <2>1. /\ request.method = "server/discover" /\ Answer(request, answer)
        /\ advertised' = advertised \cup {answer}
        /\ UNCHANGED <<server, discovery, sent, invoked, told>>
    BY <1>1 DEF ForeignDiscover
  <2>2. answer \in Advertisement
    BY McpAssumption
  <2>3. WireTypeOK' /\ UnderWay'
    BY <2>1, <2>2, AnswerKeeps
  <2>4. AnswersTakenWhole'
    BY <2>1 DEF McpInv, AnswersTakenWhole
  <2> QED BY <2>1, <2>2, <2>3, <2>4 DEF McpInv, ServerTypeOK, ClientTypeOK, InvokedTypeOK,
            ToldTypeOK, AdvertisedTypeOK, InvokedWithinBoth
<1>2. ASSUME NEW t \in {"complete", "input_required", "other"}, ForeignCall(request, t)
      PROVE  McpInv'
  <2>1. /\ request.method = "tools/call" /\ Answer(request, Result(t, FALSE, t))
        /\ UNCHANGED <<server, discovery, sent, invoked, told, advertised>>
    BY <1>2 DEF ForeignCall
  <2>2. IsTrue(Result(t, FALSE, t)) /\ Result(t, FALSE, t) \in Outcome
    BY ResultsAreTrue DEF IsTrue
  <2>3. WireTypeOK' /\ UnderWay'
    BY <2>1, <2>2, AnswerKeeps
  <2> QED BY <2>1, <2>3 DEF McpInv, ServerTypeOK, ClientTypeOK, InvokedTypeOK,
            ToldTypeOK, AdvertisedTypeOK, InvokedWithinBoth, AnswersTakenWhole
<1> QED BY <1>1, <1>2

LEMMA DiscoveredKeeps ==
    ASSUME McpInv, NEW request \in wire, Discovered(request)
    PROVE  McpInv'
<1> DEFINE answer == request.answer
<1>1. /\ request.method = "server/discover" /\ answer # Waiting /\ wire' = wire \ {request}
      /\ discovery' = IF Parses(answer) THEN Parsed(answer) ELSE discovery
      /\ UNCHANGED <<server, sent, invoked, told, advertised>>
  BY DEF Discovered
<1>2. WireTypeOK' /\ UnderWay'
  BY <1>1, TakenKeeps
<1>3. CASE Parses(answer)
  <2>1. answer \in advertised
    <3>1. answer \in advertised \cup {NoAdvertisement}
      BY <1>1 DEF McpInv, UnderWay, RequestOK
    <3>2. answer # NoAdvertisement
      BY <1>3 DEF Parses, NoAdvertisement, Missing, RequestedProtocolVersion
    <3> QED BY <3>1, <3>2
  <2>2. answer \in Advertisement
    BY <2>1 DEF McpInv, AdvertisedTypeOK
  <2>3. discovery' = Parsed(answer) /\ advertised' = advertised /\ told' = told
    BY <1>1, <1>3
  <2>4. ClientTypeOK'
    BY <1>3, <2>2, <2>3, ParsedIsWhole DEF ClientTypeOK
  <2>5. AnswersTakenWhole'
    <3>1. {t.name : t \in Parsed(answer).tools} = {MapTool(entry) : entry \in answer.tools}
      BY <1>3, <2>2, ParsedIsWhole
    <3>2. answer.version = RequestedProtocolVersion
      BY <1>3 DEF Parses
    <3> HIDE DEF answer
    <3> QED BY <2>1, <2>3, <3>1, <3>2 DEF McpInv, AnswersTakenWhole
  <2> QED BY <1>1, <1>2, <2>4, <2>5 DEF McpInv, ServerTypeOK, InvokedTypeOK,
            ToldTypeOK, AdvertisedTypeOK, InvokedWithinBoth
<1>4. CASE ~Parses(answer)
  <2>1. discovery' = discovery
    BY <1>1, <1>4
  <2> QED BY <1>1, <1>2, <2>1 DEF McpInv, ServerTypeOK, ClientTypeOK, InvokedTypeOK,
            ToldTypeOK, AdvertisedTypeOK, InvokedWithinBoth, AnswersTakenWhole
<1> QED BY <1>3, <1>4

LEMMA CallReturnsKeeps ==
    ASSUME McpInv, NEW request \in wire, CallReturns(request)
    PROVE  McpInv'
<1> DEFINE answer == request.answer
           what == [as |-> RouteResult(answer), error |-> answer.is_error, did |-> answer.did]
<1>1. /\ request.method = "tools/call" /\ answer # Waiting /\ wire' = wire \ {request}
      /\ UNCHANGED <<server, discovery, sent, invoked, advertised>>
      /\ told' \in {told, told \cup {what}}
  BY DEF CallReturns
<1>2. WireTypeOK' /\ UnderWay'
  BY <1>1, TakenKeeps
<1>3. IsTrue(answer)
  BY <1>1 DEF McpInv, UnderWay, RequestOK
<1> HIDE DEF answer
<1>4. what \in [as : {"MCPResult", "InputRequired", "MCPProtocolError"}, error : BOOLEAN, did : Dids]
  BY <1>3 DEF IsTrue, Outcome, RouteResult
<1>5. /\ what.as = "InputRequired" <=> what.did \in {"parked", "input_required"}
      /\ (what.as = "MCPResult" /\ ~what.error) <=> what.did \in {"returned", "complete"}
  BY <1>3 DEF IsTrue, Outcome, RouteResult
<1> HIDE DEF what
<1>6. ToldTypeOK'
  BY <1>1, <1>4 DEF McpInv, ToldTypeOK
<1>7. AnswersTakenWhole'
  BY <1>1, <1>5 DEF McpInv, AnswersTakenWhole
<1> QED BY <1>1, <1>2, <1>6, <1>7 DEF McpInv, ServerTypeOK, ClientTypeOK, InvokedTypeOK,
          AdvertisedTypeOK, InvokedWithinBoth

LEMMA McpNextInv ==
    ASSUME McpInv, [McpNext]_mcpVars
    PROVE  McpInv'
<1>1. ASSUME NEW s \in OurServers \cup {Foreign}, Replaced(s)
      PROVE  McpInv'
  BY <1>1, McpAssumption DEF Replaced, McpInv, ServerTypeOK, ClientTypeOK, WireTypeOK,
     InvokedTypeOK, ToldTypeOK, AdvertisedTypeOK, UnderWay, RequestOK, InvokedWithinBoth,
     AnswersTakenWhole
<1>2. ASSUME NEW request \in wire, Lost(request)
      PROVE  McpInv'
  <2>1. WireTypeOK' /\ UnderWay'
    BY <1>2, TakenKeeps DEF Lost
  <2> QED BY <1>2, <2>1 DEF Lost, McpInv, ServerTypeOK, ClientTypeOK, InvokedTypeOK,
            ToldTypeOK, AdvertisedTypeOK, InvokedWithinBoth, AnswersTakenWhole
<1>3. CASE UNCHANGED mcpVars
  BY <1>3 DEF mcpVars, McpInv, ServerTypeOK, ClientTypeOK, WireTypeOK, InvokedTypeOK, ToldTypeOK,
     AdvertisedTypeOK, UnderWay, RequestOK, InvokedWithinBoth, AnswersTakenWhole
<1> QED BY <1>1, <1>2, <1>3, SentKeeps, HandleDiscoverKeeps, HandleCallKeeps, ForeignKeeps,
          DiscoveredKeeps, CallReturnsKeeps DEF McpNext

LEMMA McpReached == McpSpec => []McpInv
<1>1. McpInit => McpInv
  BY McpInitInv
<1>2. McpInv /\ [McpNext]_mcpVars => McpInv'
  BY McpNextInv
<1> QED BY <1>1, <1>2, PTL DEF McpSpec

-----------------------------------------------------------------------------
\* Client, server and wire have the types of mcp/client.py and mcp/server.py.
THEOREM McpTypeCorrect == McpSpec => []McpTypeOK
<1>1. McpInv => McpTypeOK
  BY McpTypeParts DEF McpInv
<1> QED BY <1>1, McpReached, PTL

\* Whatever is asked, by whom and in whichever spelling, what is invoked passed the gate
\* of the server's agent, and of the client's too when the client asked (server.py,
\* _tools_call; client.py, list_tools).
THEOREM BothAllowlistsHold == McpSpec => []InvokedWithinBoth
<1>1. McpInv => InvokedWithinBoth
  BY DEF McpInv
<1> QED BY <1>1, McpReached, PTL

\* Lost, late and malformed answers leave no half of an advertisement behind and make no
\* result another one (client.py, discover and route_result).
THEOREM AnswersAreWhole == McpSpec => []AnswersTakenWhole
<1>1. McpInv => AnswersTakenWhole
  BY DEF McpInv
<1> QED BY <1>1, McpReached, PTL

-----------------------------------------------------------------------------
(* The partition of an agent. *)

Numbers(S) == S \subseteq Int

\* A finite set of integers has a greatest member, which Max is.
LEMMA MaxIs ==
    ASSUME NEW S, Numbers(S), IsFiniteSet(S), S # {}
    PROVE  Max(S) \in S /\ \A x \in S : x <= Max(S)
<1> DEFINE D == {s \in SUBSET S : s # {} /\ ~ \E m \in s : \A x \in s : x <= m}
<1>1. D = {}
  <2> SUFFICES ASSUME D # {} PROVE FALSE
    OBVIOUS
  <2>1. PICK m \in D : \A s \in D : ~ (s \subseteq m /\ s # m)
    <3>1. D \subseteq SUBSET S /\ D # {}
      OBVIOUS
    <3> HIDE DEF D
    <3> QED BY <3>1, Smallest
  <2>2. PICK y \in m : TRUE
    OBVIOUS
  <2>3. m \ {y} # {} => \E k \in m \ {y} : \A x \in m \ {y} : x <= k
    <3>1. m \ {y} \notin D
      BY <2>1, <2>2
    <3>2. m \ {y} \in SUBSET S
      OBVIOUS
    <3> QED BY <3>1, <3>2
  <2>4. CASE m \ {y} = {}
    <3>1. \A x \in m : x = y /\ x \in Int
      BY <2>2, <2>4 DEF Numbers
    <3>2. \A x \in m : x <= y
      BY <3>1
    <3> QED BY <2>2, <3>2
  <2>5. CASE m \ {y} # {}
    <3>1. PICK k \in m \ {y} : \A x \in m \ {y} : x <= k
      BY <2>3, <2>5
    <3>2. y \in Int /\ k \in Int /\ \A x \in m : x \in Int
      BY DEF Numbers
    <3>3. CASE y <= k
      BY <3>1, <3>2, <3>3
    <3>4. CASE k <= y
      <4>1. \A x \in m : x <= y
        BY <3>1, <3>2, <3>4
      <4> QED BY <2>2, <4>1
    <3> QED BY <3>2, <3>3, <3>4
  <2> QED BY <2>4, <2>5
<1>2. S \notin D
  BY <1>1
<1>3. \E m \in S : \A x \in S : x <= m
  BY <1>2
<1>4. \E m \in S : \A x \in S : m >= x
  BY <1>3
<1>5. PICK M : M = CHOOSE m \in S : \A x \in S : m >= x
  OBVIOUS
<1>6. M \in S /\ \A x \in S : M >= x
  BY <1>4, <1>5
<1>7. Max(S) = M
  BY <1>5 DEF Max
<1> QED BY <1>6, <1>7

\* Two skills whose descriptions are alike enough to be split.
Confusable(r, s) == Alike(r, s) >= SplitThreshold

Members == partition \cup checking

\* Each skill has a number of its own, and has read of older ones.
Numbered ==
    /\ IsFiniteSet(partition)
    /\ \A s \in Members : s.id \in 1 .. checked /\ s.seen \subseteq 1 .. checked
    /\ \A r, s \in Members : r.id = s.id => r = s
    /\ \A s \in Members : s.id \notin s.seen

\* A check that read of a skill like its own warned of it.
Warned == \A r, s \in Members : r.id \in s.seen /\ Confusable(r, s) => s.breaches_threshold

PartitionInv == PartitionTypeOK /\ Numbered /\ Warned

LEMMA AlikeIsEven ==
    ASSUME NEW r \in Skill, NEW s \in Skill
    PROVE  Alike(r, s) \in Int /\ Alike(r, s) = Alike(s, r)
BY SimilarityAssumption DEF Alike, Skill

\* The nearest score is as near as any.
LEMMA NearestIsNearest ==
    ASSUME NEW text \in Description, NEW existing \in SUBSET Skill, IsFiniteSet(existing),
           NEW s \in existing, Similarity[<<text, s.text>>] >= SplitThreshold
    PROVE  Breaches(text, existing)
<1>1. PICK f : f = [r \in existing |-> Similarity[<<text, r.text>>]]
  OBVIOUS
<1>2. PICK scores : scores = {Similarity[<<text, r.text>>] : r \in existing}
  OBVIOUS
<1>3. f \in Surjection(existing, scores)
  BY <1>1, <1>2 DEF Surjection
<1>4. IsFiniteSet(scores)
  BY <1>3, FS_Surjection
<1>5. scores \in SUBSET Int
  <2>1. ASSUME NEW r \in existing PROVE Similarity[<<text, r.text>>] \in Int
    <3>1. r.text \in Description
      BY DEF Skill
    <3>2. Similarity[<<text, r.text>>] \in -100 .. 100
      BY <3>1, SimilarityAssumption
    <3> QED BY <3>2
  <2> QED BY <1>2, <2>1
<1>6. Similarity[<<text, s.text>>] \in scores
  BY <1>2
<1>7. Max(scores) \in Int /\ Similarity[<<text, s.text>>] <= Max(scores)
  BY <1>4, <1>5, <1>6, MaxIs DEF Numbers
<1>8. Max(scores) >= SplitThreshold
  <2>1. PICK score \in Int : score = Similarity[<<text, s.text>>]
    BY <1>5, <1>6
  <2> QED BY <1>7, <2>1 DEF SplitThreshold
<1> QED BY <1>2, <1>8 DEF Breaches, NearestScore

LEMMA CheckKeeps ==
    ASSUME PartitionInv, NEW text \in Description, Check(text)
    PROVE  PartitionInv'
<1>1. PICK n : n = checked + 1
  OBVIOUS
<1>2. checked \in Nat /\ n \in 1 .. MaxSkills /\ checked' = n /\ n \notin 1 .. checked
  BY <1>1, SkillBound DEF Check, PartitionInv, PartitionTypeOK
<1>3. 1 .. checked \subseteq 1 .. n /\ 1 .. n \subseteq 1 .. MaxSkills
  BY <1>1, <1>2, SkillBound
<1>4. PICK new : new = [id |-> n, text |-> text, seen |-> {s.id : s \in partition},
                        breaches_threshold |-> Breaches(text, partition)]
  OBVIOUS
<1>5. checking' = checking \cup {new} /\ partition' = partition
  BY <1>1, <1>2, <1>4 DEF Check
<1>6. new.id = n /\ new.text = text /\ new.seen = {s.id : s \in partition}
  BY <1>4
<1>7. new.breaches_threshold = Breaches(text, partition)
  BY <1>4
<1>8. new.seen \subseteq 1 .. checked
  BY <1>6 DEF PartitionInv, Numbered, Members
<1>9. Breaches(text, partition) \in BOOLEAN
  BY DEF Breaches
<1>10. new \in Skill
  BY <1>2, <1>3, <1>4, <1>6, <1>8, <1>9 DEF Skill
<1>11. Members' = Members \cup {new}
  BY <1>5 DEF Members
<1>12. PartitionTypeOK'
  BY <1>2, <1>5, <1>10 DEF PartitionInv, PartitionTypeOK
<1>13. Numbered'
  BY <1>2, <1>3, <1>5, <1>6, <1>8, <1>11 DEF PartitionInv, Numbered
<1>14. ASSUME NEW r \in Members', NEW s \in Members', r.id \in s.seen, Confusable(r, s)
       PROVE  s.breaches_threshold
  <2>1. CASE r \in Members /\ s \in Members
    BY <1>14, <2>1 DEF PartitionInv, Warned
  <2>2. CASE r = new
    <3>1. s # new
      BY <1>2, <1>6, <1>8, <1>14, <2>2
    <3>2. s.seen \subseteq 1 .. checked
      BY <1>11, <3>1 DEF PartitionInv, Numbered
    <3> QED BY <1>2, <1>6, <1>14, <2>2, <3>2
  <2>3. CASE r # new /\ s = new
    <3>1. r \in Members
      BY <1>11, <2>3
    <3>2. PICK q \in partition : q.id = r.id
      BY <1>6, <1>14, <2>3
    <3>3. q = r
      BY <3>1, <3>2 DEF PartitionInv, Numbered, Members
    <3>4. r \in Skill /\ Alike(r, s) = Similarity[<<r.text, text>>]
      BY <1>6, <2>3, <3>2, <3>3 DEF PartitionInv, PartitionTypeOK, Alike
    <3>5. Similarity[<<text, r.text>>] = Similarity[<<r.text, text>>]
      BY <3>4, SimilarityAssumption DEF Skill
    <3>6. Similarity[<<text, r.text>>] >= SplitThreshold
      BY <1>14, <3>4, <3>5 DEF Confusable
    <3>7. Breaches(text, partition)
      BY <3>2, <3>3, <3>6, NearestIsNearest DEF PartitionInv, PartitionTypeOK, Numbered
    <3> QED BY <1>7, <2>3, <3>7
  <2> QED BY <1>11, <2>1, <2>2, <2>3
<1>15. Warned'
  BY <1>14 DEF Warned, Confusable, Alike
<1> QED BY <1>12, <1>13, <1>15 DEF PartitionInv

\* Skills move or go; none comes.
LEMMA MovesKeep ==
    ASSUME PartitionInv, partition' \subseteq Members, checking' \subseteq Members,
           IsFiniteSet(partition'), checked' = checked
    PROVE  PartitionInv'
<1>1. Members' \subseteq Members
  BY DEF Members
<1>2. PartitionTypeOK'
  BY DEF PartitionInv, PartitionTypeOK, Members
<1>3. Numbered'
  BY <1>1 DEF PartitionInv, Numbered
<1>4. Warned'
  BY <1>1 DEF PartitionInv, Warned, Confusable, Alike
<1> QED BY <1>2, <1>3, <1>4 DEF PartitionInv

LEMMA PartitionNextInv ==
    ASSUME PartitionInv, [PartitionNext]_partitionVars
    PROVE  PartitionInv'
<1>1. IsFiniteSet(partition)
  BY DEF PartitionInv, Numbered
<1>2. ASSUME NEW s \in checking, Join(s) PROVE PartitionInv'
  <2>1. IsFiniteSet(partition')
    BY <1>1, <1>2, FS_AddElement DEF Join
  <2> QED BY <1>2, <2>1, MovesKeep DEF Join, Members
<1>3. ASSUME NEW s, Drop(s) PROVE PartitionInv'
  BY <1>1, <1>3, MovesKeep DEF Drop, Members
<1>4. ASSUME NEW s, Leave(s) PROVE PartitionInv'
  <2>1. IsFiniteSet(partition')
    BY <1>1, <1>4, FS_RemoveElement DEF Leave
  <2> QED BY <1>4, <2>1, MovesKeep DEF Leave, Members
<1>5. CASE UNCHANGED partitionVars
  BY <1>1, <1>5, MovesKeep DEF partitionVars, Members
<1> QED BY <1>2, <1>3, <1>4, <1>5, CheckKeeps DEF PartitionNext

LEMMA PartitionInitInv ==
    ASSUME PartitionInit
    PROVE  PartitionInv
BY FS_EmptySet, SkillBound DEF PartitionInit, PartitionInv, PartitionTypeOK, Numbered,
   Warned, Members

LEMMA PartitionReached == PartitionSpec => []PartitionInv
<1>1. PartitionInit => PartitionInv
  BY PartitionInitInv
<1>2. PartitionInv /\ [PartitionNext]_partitionVars => PartitionInv'
  BY PartitionNextInv
<1> QED BY <1>1, <1>2, PTL DEF PartitionSpec

\* An audit that says split has found a pair to split.
LEMMA SplitHasPair ==
    ASSUME PartitionInv, AuditPartition(partition).should_split
    PROVE  \E r, s \in partition : r.id # s.id /\ Confusable(r, s)
<1>1. PICK skills : skills = partition
  OBVIOUS
<1>2. /\ skills \subseteq Skill /\ IsFiniteSet(skills)
      /\ \A r, s \in skills : r.id = s.id => r = s
  BY <1>1 DEF PartitionInv, PartitionTypeOK, Numbered, Members
<1>3. Cardinality(skills) >= 2 /\ Cardinality(skills) \in Nat
      /\ Max(PairScores(skills)) >= SplitThreshold
  <2>1. Cardinality(skills) \in Nat
    BY <1>2, FS_CardinalityType
  <2>2. AuditPartition(skills).should_split
    BY <1>1
  <2>3. PICK best : best = IF Cardinality(skills) < 2 THEN 0 ELSE Max(PairScores(skills))
    OBVIOUS
  <2>4. Cardinality(skills) >= 2 /\ best >= SplitThreshold
    BY <2>2, <2>3 DEF AuditPartition
  <2>5. best = Max(PairScores(skills))
    BY <2>1, <2>3, <2>4
  <2> QED BY <2>1, <2>4, <2>5
<1>4. \A r \in skills : r.id \in Nat
  BY <1>2, SkillBound DEF Skill
<1>5. Pairs(skills) # {}
  <2>1. skills # {} /\ Cardinality(skills) # 1
    BY <1>2, <1>3, FS_EmptySet
  <2>2. PICK r \in skills : TRUE
    BY <2>1
  <2>3. skills # {r}
    BY <1>2, <2>1, FS_Singleton
  <2>4. PICK s \in skills : s # r
    BY <2>2, <2>3
  <2>5. r.id < s.id \/ s.id < r.id
    BY <1>2, <1>4, <2>4
  <2>6. <<r, s>> \in Pairs(skills) \/ <<s, r>> \in Pairs(skills)
    BY <2>5 DEF Pairs
  <2> QED BY <2>6
<1>6. Pairs(skills) \in SUBSET (skills \X skills) /\ IsFiniteSet(skills \X skills)
  BY <1>2, FS_Product DEF Pairs
<1>7. IsFiniteSet(Pairs(skills))
  BY <1>6, FS_Subset
<1>8. PICK f : f = [p \in Pairs(skills) |-> Alike(p[1], p[2])]
  OBVIOUS
<1>9. f \in Surjection(Pairs(skills), PairScores(skills))
  BY <1>8 DEF Surjection, PairScores
<1>10. IsFiniteSet(PairScores(skills))
  BY <1>7, <1>9, FS_Surjection
<1>11. \A p \in Pairs(skills) : p[1] \in skills /\ p[2] \in skills /\ p[1].id < p[2].id
  BY <1>6 DEF Pairs
<1>12. PairScores(skills) \in SUBSET Int
  <2>1. \A p \in Pairs(skills) : Alike(p[1], p[2]) \in Int
    BY <1>2, <1>11, AlikeIsEven
  <2> QED BY <2>1 DEF PairScores
<1>13. PairScores(skills) # {}
  BY <1>5 DEF PairScores
<1>14. Max(PairScores(skills)) \in PairScores(skills)
  BY <1>10, <1>12, <1>13, MaxIs DEF Numbers
<1>15. PICK p \in Pairs(skills) : Alike(p[1], p[2]) >= SplitThreshold
  BY <1>3, <1>14 DEF PairScores
<1>16. p[1].id # p[2].id
  BY <1>4, <1>11
<1> QED BY <1>1, <1>11, <1>15, <1>16 DEF Confusable

\* Whatever order skills are checked, join and leave in, and however alike their
\* descriptions are, no audit says split out of the blue: some skill joined under a
\* warning, or two joined whose checks each missed the other (routing.py,
\* check_partition_addition and audit_partition).
THEOREM SplitsAreForeseen == PartitionSpec => []SplitWasForeseen
<1>1. PartitionInv => SplitWasForeseen
  <2> SUFFICES ASSUME PartitionInv, AuditPartition(partition).should_split
               PROVE  \/ \E s \in partition : s.breaches_threshold
                      \/ \E r, s \in partition : r.id # s.id /\ r.id \notin s.seen
                                                 /\ s.id \notin r.seen
    BY DEF SplitWasForeseen
  <2>1. PICK r, s \in partition : r.id # s.id /\ Confusable(r, s)
    BY SplitHasPair
  <2>2. Confusable(s, r)
    BY <2>1, AlikeIsEven DEF Confusable, PartitionInv, PartitionTypeOK
  <2>3. r.id \in s.seen => s.breaches_threshold
    BY <2>1 DEF PartitionInv, Warned, Members
  <2>4. s.id \in r.seen => r.breaches_threshold
    BY <2>2 DEF PartitionInv, Warned, Members
  <2> QED BY <2>1, <2>3, <2>4
<1> QED BY <1>1, PartitionReached, PTL

-----------------------------------------------------------------------------
(* What a house remembers: the order of an answer. *)

Orderable(records) ==
    \A r \in records : /\ r.confidence \in Int /\ r.evidence_count \in Int /\ r.key \in Int
                       /\ r.id \in Int /\ r.scope \in MemoryScope

LEMMA OutranksIsOrder ==
    ASSUME NEW records, Orderable(records),
           NEW p \in records, NEW q \in records, NEW r \in records
    PROVE  /\ ~OutranksByKey(p, p)
           /\ OutranksByKey(p, q) /\ OutranksByKey(q, r) => OutranksByKey(p, r)
<1>1. \A x \in records : Listed(x) \in Int
  <2>1. \A x \in records : x.scope \in MemoryScope
    BY DEF Orderable
  <2> QED BY <2>1 DEF Listed, MemoryScope
<1>2. \A x \in records : x.confidence \in Int /\ x.evidence_count \in Int /\ x.key \in Int /\ x.id \in Int
  BY DEF Orderable
<1>3. PICK a, b, c : a = Listed(p) /\ b = Listed(q) /\ c = Listed(r)
  OBVIOUS
<1>4. a \in Int /\ b \in Int /\ c \in Int
  BY <1>1, <1>3
<1>5. ~OutranksByKey(p, p)
  BY <1>1, <1>2 DEF OutranksByKey, Outranks
<1>6. ASSUME OutranksByKey(p, q), OutranksByKey(q, r)
      PROVE  OutranksByKey(p, r)
  BY <1>1, <1>2, <1>6, SMTT(60) DEF OutranksByKey, Outranks
<1> QED BY <1>5, <1>6

\* Of finitely many records one outranks none of the others.
LEMMA HasLowest ==
    ASSUME NEW records, IsFiniteSet(records), Orderable(records), records # {}
    PROVE  \E x \in records : \A y \in records : ~OutranksByKey(x, y)
<1> DEFINE D == {s \in SUBSET records :
                    s # {} /\ ~ \E x \in s : \A y \in s : ~OutranksByKey(x, y)}
<1> SUFFICES ASSUME D # {} PROVE FALSE
  OBVIOUS
<1>1. PICK m \in D : \A s \in D : ~ (s \subseteq m /\ s # m)
  <2>1. D \subseteq SUBSET records
    OBVIOUS
  <2> HIDE DEF D
  <2> QED BY <2>1, Smallest
<1>2. m \in SUBSET records /\ m # {} /\ ~ \E x \in m : \A y \in m : ~OutranksByKey(x, y)
  OBVIOUS
<1>3. \A s \in SUBSET m : s # {} /\ s # m => \E x \in s : \A y \in s : ~OutranksByKey(x, y)
  BY <1>1, <1>2
<1> HIDE DEF D
<1>4. PICK z \in m : TRUE
  BY <1>2
<1>5. \A p, q, r \in records : /\ ~OutranksByKey(p, p)
                               /\ OutranksByKey(p, q) /\ OutranksByKey(q, r) => OutranksByKey(p, r)
  BY OutranksIsOrder
<1>6. CASE m = {z}
  BY <1>2, <1>4, <1>5, <1>6
<1>7. CASE m # {z}
  <2>1. m \ {z} \in SUBSET m /\ m \ {z} # {} /\ m \ {z} # m
    BY <1>4, <1>7
  <2>2. PICK k \in m \ {z} : \A y \in m \ {z} : ~OutranksByKey(k, y)
    BY <1>3, <2>1
  <2>3. CASE ~OutranksByKey(k, z)
    <3>1. \A y \in m : ~OutranksByKey(k, y)
      BY <2>2, <2>3
    <3> QED BY <1>2, <2>2, <3>1
  <2>4. CASE OutranksByKey(k, z)
    <3>1. ASSUME NEW y \in m, OutranksByKey(z, y) PROVE FALSE
      <4>1. y # z /\ y \in records /\ z \in records /\ k \in records
        BY <1>2, <1>4, <1>5, <2>2, <3>1
      <4>2. OutranksByKey(k, y)
        BY <1>5, <2>4, <3>1, <4>1
      <4> QED BY <2>2, <4>1, <4>2
    <3> QED BY <1>2, <1>4, <3>1
  <2> QED BY <2>3, <2>4
<1> QED BY <1>6, <1>7

InOrder(seq) == \A i, j \in DOMAIN seq : i < j => ~OutranksByKey(seq[j], seq[i])

\* Finitely many records can be ranked.
LEMMA CanBeRanked ==
    ASSUME NEW records, IsFiniteSet(records), Orderable(records)
    PROVE  \E seq \in SetToSeqs(records) : InOrder(seq)
<1> DEFINE D == {s \in SUBSET records : ~ \E seq \in SetToSeqs(s) : InOrder(seq)}
<1> SUFFICES ASSUME D # {} PROVE FALSE
  OBVIOUS
<1>1. PICK m \in D : \A s \in D : ~ (s \subseteq m /\ s # m)
  <2>1. D \subseteq SUBSET records
    OBVIOUS
  <2> HIDE DEF D
  <2> QED BY <2>1, Smallest
<1>2. m \in SUBSET records /\ ~ \E seq \in SetToSeqs(m) : InOrder(seq)
  OBVIOUS
<1>3. \A s \in SUBSET m : s # m => \E seq \in SetToSeqs(s) : InOrder(seq)
  BY <1>1, <1>2
<1> HIDE DEF D
<1>4. IsFiniteSet(m) /\ Orderable(m)
  <2>1. IsFiniteSet(m)
    BY <1>2, FS_Subset
  <2>2. Orderable(m)
    BY <1>2 DEF Orderable
  <2> QED BY <2>1, <2>2
<1>5. CASE m = {}
  <2>1. Cardinality(m) = 0
    BY <1>5, FS_EmptySet
  <2>2. PICK seq : seq = [i \in 1 .. 0 |-> i]
    OBVIOUS
  <2>3. seq \in [1 .. 0 -> m] /\ DOMAIN seq = {} /\ 1 .. 0 = {}
    BY <2>2
  <2>4. seq \in SetToSeqs(m) /\ InOrder(seq)
    BY <2>1, <2>3 DEF SetToSeqs, InOrder
  <2> QED BY <1>2, <2>4
<1>6. CASE m # {}
  <2>1. PICK x \in m : \A y \in m : ~OutranksByKey(x, y)
    BY <1>4, <1>6, HasLowest
  <2>2. PICK r : r = m \ {x}
    OBVIOUS
  <2>3. r \in SUBSET m /\ r # m /\ x \notin r /\ m = r \cup {x}
    BY <2>1, <2>2
  <2>4. PICK front \in SetToSeqs(r) : InOrder(front)
    BY <1>3, <2>3
  <2>5. PICK n \in Nat : n = Cardinality(r) /\ Cardinality(m) = n + 1
    <3>1. IsFiniteSet(r)
      BY <1>4, <2>3, FS_Subset
    <3>2. Cardinality(r) \in Nat
      BY <3>1, FS_CardinalityType
    <3>3. Cardinality(m) = Cardinality(r) + 1
      BY <2>3, <3>1, FS_AddElement
    <3> QED BY <3>2, <3>3
  <2>6. /\ front \in [1 .. n -> r]
        /\ \A i, j \in 1 .. n : i # j => front[i] # front[j]
    BY <2>4, <2>5 DEF SetToSeqs
  <2>7. \A i, j \in 1 .. n : i < j => ~OutranksByKey(front[j], front[i])
    BY <2>4, <2>6 DEF InOrder
  <2>8. PICK seq : seq = [i \in 1 .. n + 1 |-> IF i = n + 1 THEN x ELSE front[i]]
    OBVIOUS
  <2>9. /\ seq[n + 1] = x /\ \A i \in 1 .. n : seq[i] = front[i] /\ front[i] \in r
        /\ seq \in [1 .. n + 1 -> m] /\ \A i \in 1 .. n + 1 : i = n + 1 \/ i \in 1 .. n
    BY <2>3, <2>6, <2>8
  <2>10. \A i, j \in 1 .. n + 1 : i # j => seq[i] # seq[j]
    BY <2>3, <2>6, <2>9
  <2>11. ASSUME NEW i \in 1 .. n + 1, NEW j \in 1 .. n + 1, i < j
         PROVE  ~OutranksByKey(seq[j], seq[i])
    <3>1. i \in 1 .. n /\ seq[i] = front[i] /\ front[i] \in m
      BY <2>3, <2>9, <2>11
    <3>2. CASE j = n + 1
      BY <2>1, <2>9, <3>1, <3>2
    <3>3. CASE j \in 1 .. n
      BY <2>7, <2>9, <2>11, <3>1, <3>3
    <3> QED BY <2>9, <3>2, <3>3
  <2>12. seq \in SetToSeqs(m)
    BY <2>5, <2>9, <2>10 DEF SetToSeqs
  <2>13. DOMAIN seq = 1 .. n + 1
    BY <2>8
  <2>14. InOrder(seq)
    BY <2>11, <2>13 DEF InOrder
  <2> QED BY <1>2, <2>12, <2>14
<1> QED BY <1>5, <1>6

\* An answer in order is of the records, each once.
LEMMA RankedIsOf ==
    ASSUME NEW records, IsFiniteSet(records), Orderable(records)
    PROVE  /\ Ranked(records) \in Seq(records)
           /\ Len(Ranked(records)) = Cardinality(records)
<1>1. PICK seq : seq = Ranked(records)
  OBVIOUS
<1>2. \E q \in SetToSeqs(records) : \A i, j \in DOMAIN q : i < j => ~OutranksByKey(q[j], q[i])
  BY CanBeRanked DEF InOrder
<1>3. seq \in SetToSeqs(records)
  BY <1>1, <1>2 DEF Ranked
<1>4. Cardinality(records) \in Nat
  BY FS_CardinalityType
<1>5. seq \in [1 .. Cardinality(records) -> records]
  BY <1>3 DEF SetToSeqs
<1> QED BY <1>1, <1>4, <1>5

\* The best are of the records, and no more than asked for.
LEMMA BestIsOf ==
    ASSUME NEW records, IsFiniteSet(records), Orderable(records), NEW cap \in Nat
    PROVE  Best(records, cap) \in Seq(records) /\ Len(Best(records, cap)) <= cap
<1>1. PICK sorted : sorted = Ranked(records)
  OBVIOUS
<1>2. sorted \in Seq(records)
  BY <1>1, RankedIsOf
<1>3. PICK n : n = IF cap < Len(sorted) THEN cap ELSE Len(sorted)
  OBVIOUS
<1>4. n \in Nat /\ n <= cap /\ n <= Len(sorted)
  BY <1>2, <1>3
<1>5. Best(records, cap) = SubSeq(sorted, 1, n)
  BY <1>1, <1>3 DEF Best
<1>6. \A i \in 1 .. n : sorted[i] \in records
  BY <1>2, <1>4
<1>7. SubSeq(sorted, 1, n) \in Seq(records)
      /\ Len(SubSeq(sorted, 1, n)) = IF 1 <= n THEN n - 1 + 1 ELSE 0
  BY <1>4, <1>6, SubSeqProperties
<1> QED BY <1>4, <1>5, <1>7

-----------------------------------------------------------------------------
(* Decay. *)

Worth(q, r) == q.confidence <= r.confidence /\ q = [r EXCEPT !.confidence = q.confidence]

LEMMA SameWorth ==
    ASSUME NEW r \in MemoryRecord
    PROVE  Worth(r, r)
BY DEF MemoryRecord, Worth

LEMMA LoweredIs ==
    ASSUME NEW r \in MemoryRecord
    PROVE  /\ Lowered(r) \in MemoryRecord /\ Lowered(r).by = r.by /\ Lowered(r).scope = r.scope
           /\ Worth(Lowered(r), r)
<1>1. PICK c : c = IF r.confidence > 0 THEN r.confidence - 1 ELSE 0
  OBVIOUS
<1>2. r.confidence \in 0 .. 10
  BY DEF MemoryRecord
<1>3. c \in 0 .. 10 /\ c <= r.confidence
  BY <1>1, <1>2
<1>4. Lowered(r) = [r EXCEPT !.confidence = c]
  BY <1>1 DEF Lowered
<1>5. PICK q : q = [r EXCEPT !.confidence = c]
  OBVIOUS
<1>6. /\ q.confidence = c /\ q.by = r.by /\ q.scope = r.scope
      /\ q \in MemoryRecord
  BY <1>3, <1>5 DEF MemoryRecord
<1>7. Worth(q, r)
  BY <1>3, <1>5, <1>6 DEF Worth
<1> QED BY <1>4, <1>5, <1>6, <1>7

\* Each of the records before has one after that is worth no more, in the words of Keeps.
LEMMA KeepsIs ==
    ASSUME NEW before, NEW after, \A r \in before : \E q \in after : Worth(q, r)
    PROVE  Keeps(before, after)
BY DEF Keeps, Worth

LEMMA NothingLost ==
    ASSUME NEW before \in SUBSET MemoryRecord, NEW after, before \subseteq after
    PROVE  Keeps(before, after)
<1>1. ASSUME NEW r \in before PROVE \E q \in after : Worth(q, r)
  BY SameWorth
<1> QED BY <1>1, KeepsIs

\* What decay leaves of finitely many records.
LEMMA DecayedIs ==
    ASSUME NEW records \in SUBSET MemoryRecord
    PROVE  /\ Decayed(records) \in SUBSET MemoryRecord
           /\ \A q \in Decayed(records) : \E r \in records : q.by = r.by /\ q.scope = r.scope
           /\ Keeps(records, Decayed(records))
           /\ IsFiniteSet(records) => IsFiniteSet(Decayed(records))
<1>1. \A q \in Decayed(records) : \E r \in records : q = Lowered(r)
  BY DEF Decayed
<1>2. \A r \in records : Lowered(r) \in Decayed(records)
  BY DEF Decayed
<1>3. Keeps(records, Decayed(records))
  BY <1>2, LoweredIs, KeepsIs
<1>4. ASSUME IsFiniteSet(records) PROVE IsFiniteSet(Decayed(records))
  <2>1. PICK f : f = [r \in records |-> Lowered(r)]
    OBVIOUS
  <2>2. f \in Surjection(records, Decayed(records))
    BY <1>1, <1>2, <2>1 DEF Surjection
  <2> QED BY <1>4, <2>2, FS_Surjection
<1>5. \A q \in Decayed(records) : q \in MemoryRecord
                                  /\ \E r \in records : q.by = r.by /\ q.scope = r.scope
  BY <1>1, LoweredIs
<1> QED BY <1>3, <1>4, <1>5

TableDecayed == {IF r.fresh THEN r ELSE Lowered(r) : r \in table}

LEMMA TableDecayedIs ==
    ASSUME table \in SUBSET MemoryRecord
    PROVE  /\ TableDecayed \in SUBSET MemoryRecord
           /\ \A q \in TableDecayed : \E r \in table : q.by = r.by
           /\ Keeps(table, TableDecayed)
           /\ {r \in table : r.fresh} \subseteq TableDecayed
           /\ IsFiniteSet(table) => IsFiniteSet(TableDecayed)
<1>1. PICK f : f = [r \in table |-> IF r.fresh THEN r ELSE Lowered(r)]
  OBVIOUS
<1>2. TableDecayed = {f[r] : r \in table}
  BY <1>1 DEF TableDecayed
<1>3. \A r \in table : f[r] = r \/ f[r] = Lowered(r)
  BY <1>1
<1>4. \A r \in table : r.fresh => f[r] = r
  BY <1>1
<1>5. \A r \in table : f[r] \in MemoryRecord /\ f[r].by = r.by /\ Worth(f[r], r)
  BY <1>3, LoweredIs, SameWorth
<1>6. Keeps(table, TableDecayed)
  BY <1>2, <1>5, KeepsIs
<1>7. ASSUME IsFiniteSet(table) PROVE IsFiniteSet(TableDecayed)
  <2>1. f \in Surjection(table, TableDecayed)
    BY <1>1, <1>2 DEF Surjection
  <2> QED BY <1>7, <2>1, FS_Surjection
<1> QED BY <1>2, <1>4, <1>5, <1>6, <1>7

-----------------------------------------------------------------------------
(* The invariant. *)

MemoryFinite ==
    /\ \A s \in Store : IsFiniteSet(short[s]) /\ IsFiniteSet(mid[s])
    /\ \A c \in Crew, t \in Tenant : IsFiniteSet(by_tenant[c][t])
    /\ IsFiniteSet(table)

\* Each record is with who remembered it, or with the crew and the house of who did.
WithItsOwner ==
    /\ \A s \in Store : \A r \in short[s] \cup mid[s] : r.by = s
    /\ \A c \in Crew, t \in Tenant : \A r \in by_tenant[c][t] :
        r.scope = "long" /\ r.by \in Store /\ TenantOf[r.by] = t /\ CrewOf[r.by] = c
    /\ \A r \in table : r.by = Db

MemoryInv == MemoryTypeOK /\ MemoryFinite /\ WithItsOwner /\ RecallIsOwn

\* What a step does to the records, in one formula.
Forgets ==
    \/ \E s \in Store : ~Keeps(short[s], short'[s]) \/ ~Keeps(mid[s], mid'[s])
    \/ \E c \in Crew, t \in Tenant : ~Keeps(by_tenant[c][t], by_tenant'[c][t])
    \/ ~Keeps(table, table')
    \/ ~ ({r \in table : r.fresh} \subseteq table')

LEMMA NewRecordIs ==
    ASSUME MemoryTypeOK, NEW by \in Store \cup {Db}, NEW r \in NextRecord(by), NewRecord(r)
    PROVE  r \in MemoryRecord /\ remembered' \in 0 .. MaxRemembered /\ r.by = by
<1>1. /\ remembered \in 0 .. MaxRemembered /\ remembered < MaxRemembered /\ MaxRemembered \in Nat
      /\ remembered' = remembered + 1
  BY MemoryAssumption DEF MemoryTypeOK, NewRecord
<1>2. remembered + 1 \in 1 .. MaxRemembered /\ remembered' \in 0 .. MaxRemembered
  BY <1>1
<1>3. PICK q \in Remembered :
        r = [id |-> remembered + 1, key |-> q.key, scope |-> q.scope, confidence |-> q.confidence,
             evidence_count |-> q.evidence_count, fresh |-> q.fresh, by |-> by]
  BY DEF NextRecord
<1>4. /\ q.key \in Key /\ q.scope \in MemoryScope /\ q.confidence \in 0 .. 10
      /\ q.evidence_count \in 0 .. 1 /\ q.fresh \in BOOLEAN
  <2>1. q \in [key : Key, scope : {"short", "mid", "long"}, confidence : 0 .. 10,
               evidence_count : 0 .. 1, fresh : BOOLEAN]
    BY MemoryAssumption
  <2> QED BY <2>1 DEF MemoryScope
<1> QED BY <1>2, <1>3, <1>4 DEF MemoryRecord

LEMMA MemoryInitInv ==
    ASSUME MemoryInit
    PROVE  MemoryInv
<1>1. MemoryTypeOK
  BY MemoryAssumption DEF MemoryInit, MemoryTypeOK
<1>2. MemoryFinite /\ WithItsOwner
  BY FS_EmptySet DEF MemoryInit, MemoryFinite, WithItsOwner
<1>3. RecallIsOwn
  BY MemoryAssumption DEF MemoryInit, RecallIsOwn, ToSet
<1> QED BY <1>1, <1>2, <1>3 DEF MemoryInv

LEMMA RecalledStays ==
    ASSUME MemoryInv, UNCHANGED recalled
    PROVE  RecallIsOwn' /\ recalled'.records \in Seq(MemoryRecord)
BY DEF MemoryInv, MemoryTypeOK, RecallIsOwn

LEMMA RememberKeeps ==
    ASSUME MemoryInv, NEW s \in Store, NEW r \in NextRecord(s), Remember(s, r)
    PROVE  MemoryInv' /\ ~Forgets
<1>1. /\ short \in [Store -> SUBSET MemoryRecord] /\ mid \in [Store -> SUBSET MemoryRecord]
      /\ by_tenant \in [Crew -> [Tenant -> SUBSET MemoryRecord]] /\ table \subseteq MemoryRecord
      /\ CrewOf[s] \in Crew /\ TenantOf[s] \in Tenant
  BY MemoryAssumption DEF MemoryInv, MemoryTypeOK
<1>2. r \in MemoryRecord /\ remembered' \in 0 .. MaxRemembered /\ r.by = s
  BY NewRecordIs DEF MemoryInv, Remember
<1>3. /\ short' \in [Store -> SUBSET MemoryRecord] /\ mid' \in [Store -> SUBSET MemoryRecord]
      /\ by_tenant' \in [Crew -> [Tenant -> SUBSET MemoryRecord]] /\ table' = table
  BY <1>1, <1>2 DEF Remember
<1>4. \A x \in Store : short'[x] = short[x] \/ (x = s /\ short'[x] = short[x] \cup {r})
  BY <1>1 DEF Remember
<1>5. \A x \in Store : mid'[x] = mid[x] \/ (x = s /\ mid'[x] = mid[x] \cup {r})
  BY <1>1 DEF Remember
<1>6. \A c \in Crew, t \in Tenant :
        \/ by_tenant'[c][t] = by_tenant[c][t]
        \/ /\ c = CrewOf[s] /\ t = TenantOf[s] /\ r.scope = "long"
           /\ by_tenant'[c][t] = by_tenant[c][t] \cup {r}
  BY <1>1 DEF Remember
<1>7. MemoryTypeOK'
  BY <1>1, <1>2, <1>3, RecalledStays DEF MemoryTypeOK, Remember
<1>8. MemoryFinite'
  <2>1. \A x \in Store : IsFiniteSet(short'[x]) /\ IsFiniteSet(mid'[x])
    <3> SUFFICES ASSUME NEW x \in Store PROVE IsFiniteSet(short'[x]) /\ IsFiniteSet(mid'[x])
      OBVIOUS
    <3>1. IsFiniteSet(short[x]) /\ IsFiniteSet(mid[x])
      BY DEF MemoryInv, MemoryFinite
    <3>2. IsFiniteSet(short[x] \cup {r}) /\ IsFiniteSet(mid[x] \cup {r})
      BY <3>1, FS_AddElement
    <3> QED BY <1>4, <1>5, <3>1, <3>2
  <2>2. \A c \in Crew, t \in Tenant : IsFiniteSet(by_tenant'[c][t])
    <3> SUFFICES ASSUME NEW c \in Crew, NEW t \in Tenant PROVE IsFiniteSet(by_tenant'[c][t])
      OBVIOUS
    <3>1. IsFiniteSet(by_tenant[c][t])
      BY DEF MemoryInv, MemoryFinite
    <3> QED BY <1>6, <3>1, FS_AddElement
  <2> QED BY <1>3, <2>1, <2>2 DEF MemoryInv, MemoryFinite
<1>9. WithItsOwner'
  <2>1. \A x \in Store : \A q \in short'[x] \cup mid'[x] : q.by = x
    BY <1>2, <1>4, <1>5 DEF MemoryInv, WithItsOwner
  <2>2. \A c \in Crew, t \in Tenant : \A q \in by_tenant'[c][t] :
            q.scope = "long" /\ q.by \in Store /\ TenantOf[q.by] = t /\ CrewOf[q.by] = c
    BY <1>2, <1>6 DEF MemoryInv, WithItsOwner
  <2> QED BY <1>3, <2>1, <2>2 DEF MemoryInv, WithItsOwner
<1>10. ~Forgets
  <2>1. \A x \in Store : Keeps(short[x], short'[x]) /\ Keeps(mid[x], mid'[x])
    BY <1>1, <1>4, <1>5, NothingLost
  <2>2. ASSUME NEW c \in Crew, NEW t \in Tenant PROVE Keeps(by_tenant[c][t], by_tenant'[c][t])
    BY <1>1, <1>6, NothingLost
  <2>3. Keeps(table, table')
    BY <1>1, <1>3, NothingLost
  <2> QED BY <1>3, <2>1, <2>2, <2>3 DEF Forgets
<1> QED BY <1>7, <1>8, <1>9, <1>10, RecalledStays DEF MemoryInv, Remember

LEMMA RememberInTableKeeps ==
    ASSUME MemoryInv, NEW r \in NextRecord(Db), RememberInTable(r)
    PROVE  MemoryInv' /\ ~Forgets
<1>1. /\ short \in [Store -> SUBSET MemoryRecord] /\ mid \in [Store -> SUBSET MemoryRecord]
      /\ by_tenant \in [Crew -> [Tenant -> SUBSET MemoryRecord]] /\ table \subseteq MemoryRecord
  BY DEF MemoryInv, MemoryTypeOK
<1>2. r \in MemoryRecord /\ remembered' \in 0 .. MaxRemembered /\ r.by = Db
  BY NewRecordIs DEF MemoryInv, RememberInTable
<1>3. short' = short /\ mid' = mid /\ by_tenant' = by_tenant /\ table' = table \cup {r}
  BY DEF RememberInTable
<1>4. MemoryTypeOK'
  BY <1>1, <1>2, <1>3, RecalledStays DEF MemoryTypeOK, RememberInTable
<1>5. MemoryFinite'
  BY <1>3, FS_AddElement DEF MemoryInv, MemoryFinite
<1>6. WithItsOwner'
  BY <1>2, <1>3 DEF MemoryInv, WithItsOwner
<1>7. ~Forgets
  <2>1. \A x \in Store : Keeps(short[x], short'[x]) /\ Keeps(mid[x], mid'[x])
    BY <1>1, <1>3, NothingLost
  <2>2. ASSUME NEW c \in Crew, NEW t \in Tenant PROVE Keeps(by_tenant[c][t], by_tenant'[c][t])
    BY <1>1, <1>3, NothingLost
  <2>3. Keeps(table, table')
    BY <1>1, <1>3, NothingLost
  <2> QED BY <1>3, <2>1, <2>2, <2>3 DEF Forgets
<1> QED BY <1>4, <1>5, <1>6, <1>7, RecalledStays DEF MemoryInv, RememberInTable

LEMMA DecayKeeps ==
    ASSUME MemoryInv, NEW s \in Store, Decay(s)
    PROVE  MemoryInv' /\ ~Forgets
<1>1. /\ short \in [Store -> SUBSET MemoryRecord] /\ mid \in [Store -> SUBSET MemoryRecord]
      /\ by_tenant \in [Crew -> [Tenant -> SUBSET MemoryRecord]] /\ table \subseteq MemoryRecord
      /\ CrewOf[s] \in Crew /\ TenantOf[s] \in Tenant
  BY MemoryAssumption DEF MemoryInv, MemoryTypeOK
<1>2. PICK ds, dm, dl : /\ ds = Decayed(short[s]) /\ dm = Decayed(mid[s])
                       /\ dl = Decayed(by_tenant[CrewOf[s]][TenantOf[s]])
  OBVIOUS
<1>3. /\ short' = [short EXCEPT ![s] = ds] /\ mid' = [mid EXCEPT ![s] = dm] /\ table' = table
      /\ by_tenant' = [by_tenant EXCEPT ![CrewOf[s]][TenantOf[s]] = dl]
      /\ remembered' = remembered /\ recalled' = recalled
  BY <1>2 DEF Decay
<1>4. /\ ds \in SUBSET MemoryRecord /\ Keeps(short[s], ds)
      /\ \A q \in ds : \E r \in short[s] : q.by = r.by
      /\ IsFiniteSet(short[s]) => IsFiniteSet(ds)
  <2>1. short[s] \in SUBSET MemoryRecord
    BY <1>1
  <2> QED BY <1>2, <2>1, DecayedIs
<1>5. /\ dm \in SUBSET MemoryRecord /\ Keeps(mid[s], dm)
      /\ \A q \in dm : \E r \in mid[s] : q.by = r.by
      /\ IsFiniteSet(mid[s]) => IsFiniteSet(dm)
  <2>1. mid[s] \in SUBSET MemoryRecord
    BY <1>1
  <2> QED BY <1>2, <2>1, DecayedIs
<1>6. PICK l : l = by_tenant[CrewOf[s]][TenantOf[s]]
  OBVIOUS
<1>7. /\ dl \in SUBSET MemoryRecord /\ Keeps(l, dl)
      /\ \A q \in dl : \E r \in l : q.by = r.by /\ q.scope = r.scope
      /\ IsFiniteSet(l) => IsFiniteSet(dl)
  <2>1. l \in SUBSET MemoryRecord
    BY <1>1, <1>6
  <2> QED BY <1>2, <1>6, <2>1, DecayedIs
<1>8. \A x \in Store : short'[x] = IF x = s THEN ds ELSE short[x]
  BY <1>1, <1>3
<1>9. \A x \in Store : mid'[x] = IF x = s THEN dm ELSE mid[x]
  BY <1>1, <1>3
<1>10. \A c \in Crew, t \in Tenant :
        by_tenant'[c][t] = IF c = CrewOf[s] /\ t = TenantOf[s] THEN dl ELSE by_tenant[c][t]
  BY <1>1, <1>3
<1>11. MemoryTypeOK'
  <2>1. short' \in [Store -> SUBSET MemoryRecord] /\ mid' \in [Store -> SUBSET MemoryRecord]
    BY <1>1, <1>3, <1>4, <1>5
  <2>2. by_tenant' \in [Crew -> [Tenant -> SUBSET MemoryRecord]]
    BY <1>1, <1>3, <1>7
  <2> QED BY <1>1, <1>3, <2>1, <2>2 DEF MemoryInv, MemoryTypeOK
<1>12. MemoryFinite'
  <2>1. \A x \in Store : IsFiniteSet(short'[x]) /\ IsFiniteSet(mid'[x])
    BY <1>4, <1>5, <1>8, <1>9 DEF MemoryInv, MemoryFinite
  <2>2. \A c \in Crew, t \in Tenant : IsFiniteSet(by_tenant[c][t])
    BY DEF MemoryInv, MemoryFinite
  <2>3. \A c \in Crew, t \in Tenant : IsFiniteSet(by_tenant'[c][t])
    BY <1>1, <1>6, <1>7, <1>10, <2>2
  <2> QED BY <1>3, <2>1, <2>3 DEF MemoryInv, MemoryFinite
<1>13. WithItsOwner'
  <2>1. \A x \in Store : \A q \in short'[x] \cup mid'[x] : q.by = x
    BY <1>4, <1>5, <1>8, <1>9 DEF MemoryInv, WithItsOwner
  <2>2. \A c \in Crew, t \in Tenant : \A q \in by_tenant[c][t] :
            q.scope = "long" /\ q.by \in Store /\ TenantOf[q.by] = t /\ CrewOf[q.by] = c
    BY DEF MemoryInv, WithItsOwner
  <2>3. ASSUME NEW c \in Crew, NEW t \in Tenant, NEW q \in by_tenant'[c][t]
        PROVE  q.scope = "long" /\ q.by \in Store /\ TenantOf[q.by] = t /\ CrewOf[q.by] = c
    <3>1. CASE c = CrewOf[s] /\ t = TenantOf[s]
      <4>1. q \in dl
        BY <1>10, <2>3, <3>1
      <4>2. PICK r \in l : q.by = r.by /\ q.scope = r.scope
        BY <1>7, <4>1
      <4> QED BY <1>6, <2>2, <3>1, <4>2
    <3>2. CASE ~ (c = CrewOf[s] /\ t = TenantOf[s])
      BY <1>10, <2>2, <2>3, <3>2
    <3> QED BY <3>1, <3>2
  <2> QED BY <1>3, <2>1, <2>3 DEF MemoryInv, WithItsOwner
<1>14. ~Forgets
  <2>1. \A x \in Store : Keeps(short[x], short'[x]) /\ Keeps(mid[x], mid'[x])
    BY <1>1, <1>4, <1>5, <1>8, <1>9, NothingLost
  <2>2. ASSUME NEW c \in Crew, NEW t \in Tenant PROVE Keeps(by_tenant[c][t], by_tenant'[c][t])
    BY <1>1, <1>6, <1>7, <1>10, NothingLost
  <2>3. Keeps(table, table')
    BY <1>1, <1>3, NothingLost
  <2> QED BY <1>3, <2>1, <2>2, <2>3 DEF Forgets
<1> QED BY <1>3, <1>11, <1>12, <1>13, <1>14, RecalledStays DEF MemoryInv

LEMMA DecayTableKeeps ==
    ASSUME MemoryInv, DecayTable
    PROVE  MemoryInv' /\ ~Forgets
<1>1. /\ short \in [Store -> SUBSET MemoryRecord] /\ mid \in [Store -> SUBSET MemoryRecord]
      /\ by_tenant \in [Crew -> [Tenant -> SUBSET MemoryRecord]] /\ table \in SUBSET MemoryRecord
  BY DEF MemoryInv, MemoryTypeOK
<1>2. /\ short' = short /\ mid' = mid /\ by_tenant' = by_tenant /\ table' = TableDecayed
      /\ remembered' = remembered /\ recalled' = recalled
  BY DEF DecayTable, TableDecayed
<1>3. /\ TableDecayed \in SUBSET MemoryRecord
      /\ \A q \in TableDecayed : \E r \in table : q.by = r.by
      /\ Keeps(table, TableDecayed)
      /\ {r \in table : r.fresh} \subseteq TableDecayed
      /\ IsFiniteSet(table) => IsFiniteSet(TableDecayed)
  BY <1>1, TableDecayedIs
<1>4. PICK d : d = TableDecayed
  OBVIOUS
<1>5. MemoryTypeOK'
  BY <1>2, <1>3 DEF MemoryInv, MemoryTypeOK
<1>6. MemoryFinite'
  BY <1>2, <1>3 DEF MemoryInv, MemoryFinite
<1>7. WithItsOwner'
  BY <1>2, <1>3 DEF MemoryInv, WithItsOwner
<1>8. ~Forgets
  <2>1. \A x \in Store : Keeps(short[x], short'[x]) /\ Keeps(mid[x], mid'[x])
    BY <1>1, <1>2, NothingLost
  <2>2. ASSUME NEW c \in Crew, NEW t \in Tenant PROVE Keeps(by_tenant[c][t], by_tenant'[c][t])
    BY <1>1, <1>2, NothingLost
  <2> QED BY <1>2, <1>3, <2>1, <2>2 DEF Forgets
<1> QED BY <1>2, <1>5, <1>6, <1>7, <1>8, RecalledStays DEF MemoryInv

\* Nothing but the answer changes.
LEMMA OnlyRecalled ==
    ASSUME MemoryInv, UNCHANGED <<short, mid, by_tenant, table, remembered>>
    PROVE  /\ ~Forgets /\ MemoryFinite' /\ WithItsOwner'
           /\ recalled'.records \in Seq(MemoryRecord) => MemoryTypeOK'
<1>1. /\ short \in [Store -> SUBSET MemoryRecord] /\ mid \in [Store -> SUBSET MemoryRecord]
      /\ by_tenant \in [Crew -> [Tenant -> SUBSET MemoryRecord]] /\ table \in SUBSET MemoryRecord
  BY DEF MemoryInv, MemoryTypeOK
<1>2. ~Forgets
  <2>1. \A x \in Store : Keeps(short[x], short'[x]) /\ Keeps(mid[x], mid'[x])
    BY <1>1, NothingLost
  <2>2. ASSUME NEW c \in Crew, NEW t \in Tenant PROVE Keeps(by_tenant[c][t], by_tenant'[c][t])
    BY <1>1, NothingLost
  <2>3. Keeps(table, table')
    BY <1>1, NothingLost
  <2> QED BY <2>1, <2>2, <2>3 DEF Forgets
<1>3. MemoryFinite' /\ WithItsOwner'
  BY DEF MemoryInv, MemoryFinite, WithItsOwner
<1>4. recalled'.records \in Seq(MemoryRecord) => MemoryTypeOK'
  BY DEF MemoryInv, MemoryTypeOK
<1> QED BY <1>2, <1>3, <1>4

LEMMA RecordsAreOrderable ==
    ASSUME NEW records \in SUBSET MemoryRecord
    PROVE  Orderable(records)
<1> SUFFICES ASSUME NEW r \in records
             PROVE  /\ r.confidence \in Int /\ r.evidence_count \in Int /\ r.key \in Int
                    /\ r.id \in Int /\ r.scope \in MemoryScope
  BY DEF Orderable
<1>1. /\ r.confidence \in 0 .. 10 /\ r.evidence_count \in 0 .. 1 /\ r.key \in Key
      /\ r.id \in 1 .. MaxRemembered /\ r.scope \in MemoryScope
  BY DEF MemoryRecord
<1>2. r.key \in Nat /\ MaxRemembered \in Nat
  BY <1>1, MemoryAssumption
<1> QED BY <1>1, <1>2

\* What a store sees is its own, or of its crew and its house.
LEMMA VisibleIsOwn ==
    ASSUME MemoryInv, NEW s \in Store, NEW scopes
    PROVE  /\ Visible(s, scopes) \in SUBSET MemoryRecord /\ IsFiniteSet(Visible(s, scopes))
           /\ \A r \in Visible(s, scopes) :
                r.by = s \/ (r.scope = "long" /\ r.by \in Store
                              /\ TenantOf[r.by] = TenantOf[s] /\ CrewOf[r.by] = CrewOf[s])
<1>1. /\ short[s] \in SUBSET MemoryRecord /\ mid[s] \in SUBSET MemoryRecord
      /\ CrewOf[s] \in Crew /\ TenantOf[s] \in Tenant
      /\ LongRecords(s) \in SUBSET MemoryRecord
  BY MemoryAssumption DEF MemoryInv, MemoryTypeOK, LongRecords
<1>2. IsFiniteSet(short[s]) /\ IsFiniteSet(mid[s]) /\ IsFiniteSet(LongRecords(s)) /\ IsFiniteSet({})
  BY <1>1, FS_EmptySet DEF MemoryInv, MemoryFinite, LongRecords
<1> DEFINE a == IF "short" \in scopes THEN short[s] ELSE {}
           b == IF "mid" \in scopes THEN mid[s] ELSE {}
           c == IF "long" \in scopes THEN LongRecords(s) ELSE {}
<1>4. Visible(s, scopes) = a \cup b \cup c
  BY DEF Visible
<1>5. a \subseteq short[s] /\ b \subseteq mid[s] /\ c \subseteq LongRecords(s)
  OBVIOUS
<1>6. IsFiniteSet(a) /\ IsFiniteSet(b) /\ IsFiniteSet(c)
  BY <1>2
<1> HIDE DEF a, b, c
<1>7. IsFiniteSet(a \cup b)
  BY <1>6, FS_Union
<1>8. IsFiniteSet((a \cup b) \cup c)
  BY <1>6, <1>7, FS_Union
<1>9. \A r \in short[s] \cup mid[s] : r.by = s
  BY DEF MemoryInv, WithItsOwner
<1>10. \A r \in LongRecords(s) : /\ r.scope = "long" /\ r.by \in Store
                                /\ TenantOf[r.by] = TenantOf[s] /\ CrewOf[r.by] = CrewOf[s]
  BY <1>1 DEF MemoryInv, WithItsOwner, LongRecords
<1> QED BY <1>1, <1>4, <1>5, <1>8, <1>9, <1>10

LEMMA RecallKeeps ==
    ASSUME MemoryInv, NEW s \in Store, NEW scopes, NEW keys, NEW limit \in 0 .. 2,
           Recall(s, scopes, keys, limit)
    PROVE  MemoryInv' /\ ~Forgets
<1>1. PICK matches : matches = {r \in Visible(s, scopes) : r.key \in keys}
  OBVIOUS
<1>2. matches \in SUBSET Visible(s, scopes)
  BY <1>1
<1>3. IsFiniteSet(matches) /\ matches \in SUBSET MemoryRecord
  BY <1>2, VisibleIsOwn, FS_Subset
<1>4. Orderable(matches)
  BY <1>3, RecordsAreOrderable
<1>5. PICK cap : cap = Cap(s, limit)
  OBVIOUS
<1>6. RecallLimit[s] \in Nat /\ limit \in Nat
  BY MemoryAssumption
<1>7. cap \in Nat /\ cap <= limit /\ cap <= RecallLimit[s]
  BY <1>5, <1>6 DEF Cap
<1>8. PICK answer : answer = Best(matches, cap)
  OBVIOUS
<1>9. answer \in Seq(matches) /\ Len(answer) <= cap
  BY <1>3, <1>4, <1>7, <1>8, BestIsOf
<1>10. recalled' = [by |-> s, limit |-> limit, records |-> answer]
  BY <1>1, <1>5, <1>8 DEF Recall
<1>11. recalled'.by = s /\ recalled'.limit = limit /\ recalled'.records = answer
  BY <1>10
<1>12. Len(answer) \in Nat /\ \A i \in DOMAIN answer : answer[i] \in matches
  BY <1>9
<1>13. ToSet(answer) \subseteq matches
  BY <1>12 DEF ToSet
<1>14. answer \in Seq(MemoryRecord)
  BY <1>3, <1>9
<1>15. s # Db
  BY MemoryAssumption
<1>16. RecallIsOwn'
  <2>1. Len(answer) <= limit /\ Len(answer) <= RecallLimit[s]
    BY <1>6, <1>7, <1>9, <1>12
  <2>2. \A r \in ToSet(answer) :
            r.by = s \/ (r.scope = "long" /\ r.by \in Store
                          /\ TenantOf[r.by] = TenantOf[s] /\ CrewOf[r.by] = CrewOf[s])
    BY <1>2, <1>13, VisibleIsOwn
  <2> QED BY <1>11, <1>15, <2>1, <2>2 DEF RecallIsOwn
<1>17. MemoryTypeOK' /\ MemoryFinite' /\ WithItsOwner' /\ ~Forgets
  BY <1>11, <1>14, OnlyRecalled DEF Recall
<1> QED BY <1>16, <1>17 DEF MemoryInv

LEMMA RecallFromTableKeeps ==
    ASSUME MemoryInv, NEW scopes, NEW searched, NEW keys, NEW limit \in 0 .. 2,
           NEW answer \in SUBSET table,
           RecallFromTable(scopes, searched, keys, limit, answer)
    PROVE  MemoryInv' /\ ~Forgets
<1>1. PICK matches : matches = {r \in table : r.scope \in scopes /\ (searched => r.key \in keys)}
  OBVIOUS
<1>2. /\ matches \in SUBSET table /\ table \in SUBSET MemoryRecord /\ IsFiniteSet(table)
      /\ \A r \in table : r.by = Db
  BY <1>1 DEF MemoryInv, MemoryTypeOK, MemoryFinite, WithItsOwner
<1>3. IsFiniteSet(matches) /\ IsFiniteSet(answer) /\ answer \in SUBSET MemoryRecord
  BY <1>2, FS_Subset
<1>4. Cardinality(matches) \in Nat /\ Cardinality(answer) \in Nat /\ limit \in Nat
  BY <1>3, FS_CardinalityType
<1>5. Cardinality(answer) = IF limit < Cardinality(matches) THEN limit ELSE Cardinality(matches)
  BY <1>1 DEF RecallFromTable
<1>6. Cardinality(answer) <= limit
  BY <1>4, <1>5
<1>7. PICK q : q = Ranked(answer)
  OBVIOUS
<1>8. q \in Seq(answer) /\ Len(q) = Cardinality(answer)
  BY <1>3, <1>7, RankedIsOf, RecordsAreOrderable
<1>9. recalled' = [by |-> Db, limit |-> limit, records |-> q]
  BY <1>7 DEF RecallFromTable
<1>10. recalled'.by = Db /\ recalled'.limit = limit /\ recalled'.records = q
  BY <1>9
<1>11. q \in Seq(MemoryRecord) /\ \A i \in DOMAIN q : q[i] \in answer
  BY <1>3, <1>8
<1>12. \A r \in ToSet(q) : r.by = Db
  BY <1>2, <1>11 DEF ToSet
<1>13. Db \notin Store
  BY MemoryAssumption
<1>14. RecallIsOwn'
  BY <1>6, <1>8, <1>10, <1>12, <1>13 DEF RecallIsOwn
<1>15. MemoryTypeOK' /\ MemoryFinite' /\ WithItsOwner' /\ ~Forgets
  BY <1>10, <1>11, OnlyRecalled DEF RecallFromTable
<1> QED BY <1>14, <1>15 DEF MemoryInv

LEMMA MemoryNextInv ==
    ASSUME MemoryInv, [MemoryNext]_memoryVars
    PROVE  MemoryInv' /\ ~Forgets
<1>1. CASE UNCHANGED memoryVars
  <2>1. UNCHANGED <<short, mid, by_tenant, table, remembered>> /\ UNCHANGED recalled
    BY <1>1 DEF memoryVars
  <2>2. RecallIsOwn' /\ recalled'.records \in Seq(MemoryRecord)
    BY <2>1, RecalledStays
  <2> QED BY <2>1, <2>2, OnlyRecalled DEF MemoryInv
<1>2. ASSUME NEW scopes \in Scopes, NEW searched \in BOOLEAN, NEW limit \in 0 .. 2,
             NEW answer \in SUBSET table,
             \E keys \in IF searched THEN SUBSET Key ELSE {Key} :
                RecallFromTable(scopes, searched, keys, limit, answer)
      PROVE  MemoryInv' /\ ~Forgets
  BY <1>2, RecallFromTableKeeps
<1> QED BY <1>1, <1>2, RememberKeeps, RememberInTableKeeps, DecayKeeps, DecayTableKeeps, RecallKeeps
        DEF MemoryNext

LEMMA MemoryReached == MemorySpec => []MemoryInv
<1>1. MemoryInit => MemoryInv
  BY MemoryInitInv
<1>2. MemoryInv /\ [MemoryNext]_memoryVars => MemoryInv'
  BY MemoryNextInv
<1> QED BY <1>1, <1>2, PTL DEF MemorySpec

\* However many houses share a crew memory, and whatever is remembered, recalled and decayed
\* in any order, a store is told its own records and the LONG ones of its house in its crew,
\* and no more than it may be told (store.py, _visible and recall).
THEOREM HousesAreApart == MemorySpec => []RecallIsOwn
<1>1. MemoryInv => RecallIsOwn
  BY DEF MemoryInv
<1> QED BY <1>1, MemoryReached, PTL

\* No step forgets, moves or raises a record, and decay spares the fresh ones of the table
\* (store.py, decay; sqlite.py, decay).
THEOREM DecayIsSafe == MemorySpec => NothingForgotten
<1>1. MemoryInv /\ [MemoryNext]_memoryVars =>
        [ /\ \A s \in Store : Keeps(short[s], short'[s]) /\ Keeps(mid[s], mid'[s])
          /\ \A c \in Crew, t \in Tenant : Keeps(by_tenant[c][t], by_tenant'[c][t])
          /\ Keeps(table, table')
          /\ {r \in table : r.fresh} \subseteq table' ]_memoryVars
  BY MemoryNextInv DEF Forgets
<1> QED BY <1>1, MemoryReached, PTL DEF MemorySpec, NothingForgotten

-----------------------------------------------------------------------------
(* A plugin that is loaded: what a front matter stands for. *)

\* The sum over the keys is one that the lemmas of SumProofs speak of.
LEMMA EntriesIsSum ==
    ASSUME NEW front, IsFiniteSet(DOMAIN front),
           NEW f, \A k \in DOMAIN front : f[k] = front[k].size
    PROVE  Entries(front) = SumFunctionOnSet(f, DOMAIN front)
<1>0. PICK S : S = DOMAIN front
  OBVIOUS
<1>0a. IsFiniteSet(S) /\ \A k \in S : f[k] = front[k].size
  BY <1>0
<1> DEFINE IsG(g) == g = [s \in SUBSET S |-> IF s = {} THEN 0
                                             ELSE front[Elt(s)].size + g[s \ {Elt(s)}]]
<1>1. Entries(front) = (CHOOSE g : IsG(g))[S]
  BY <1>0 DEF Entries, MapThenSumSet, MapThenFoldSet, Elt
<1>2. \A s \in SUBSET S : s # {} => f[Elt(s)] = front[Elt(s)].size
  BY <1>0a, EltIn
<1>3. ASSUME NEW g
      PROVE  [s \in SUBSET S |-> IF s = {} THEN 0 ELSE f[Elt(s)] + g[s \ {Elt(s)}]]
                = [s \in SUBSET S |-> IF s = {} THEN 0 ELSE front[Elt(s)].size + g[s \ {Elt(s)}]]
  BY <1>2
<1>4. ASSUME NEW g PROVE IsSum(g, f, S) <=> IsG(g)
  BY <1>3 DEF IsSum
<1> HIDE DEF IsG
<1>5. IsG(SumOf(f, S))
  BY <1>0a, <1>4, SumExists
<1>6. PICK h : h = CHOOSE g : IsG(g)
  OBVIOUS
<1>7. IsG(h)
  BY <1>5, <1>6
<1>8. IsSum(h, f, S)
  BY <1>4, <1>7
<1>10. h[S] = SumFunctionOnSet(f, S)
  BY <1>0a, <1>8, SumIsAny
<1> QED BY <1>0, <1>1, <1>6, <1>10

LEMMA MaxOfOne ==
    ASSUME NEW n \in Int
    PROVE  Max({n}) = n
<1>1. \E m \in {n} : \A x \in {n} : m >= x
  OBVIOUS
<1> QED BY <1>1 DEF Max

\* A document that parses stands for each of its lines once: a line is a pair of the
\* mapping or in the block under one, and no two pairs have one key.
LEMMA LinesAreCounted ==
    ASSUME NEW lines \in Seq(Line), FrontmatterParses(lines)
    PROVE  Entries(ParseFrontmatter(lines)) = Len(lines)
<1>1. PICK n \in Nat : n = Len(lines) /\ DOMAIN lines = 1 .. n
  OBVIOUS
<1>2. PICK top : top = TopLines(lines)
  OBVIOUS
<1>3. PICK K : K = {lines[j].key : j \in top}
  OBVIOUS
<1>4. PICK front : front = ParseFrontmatter(lines)
  OBVIOUS
<1>5. \A i \in 1 .. n : lines[i].indent \in 0 .. 2
  <2>1. \A i \in 1 .. n : lines[i] \in Line
    BY <1>1
  <2> QED BY <2>1 DEF Line
<1>6. top \subseteq 1 .. n /\ \A i \in 1 .. n : i \in top <=> lines[i].indent = 0
  BY <1>1, <1>2 DEF TopLines
<1>7. \A i, j \in top : lines[i].key = lines[j].key => i = j
  BY <1>2 DEF FrontmatterParses, DistinctKeys
<1>8. n # 0 => 1 \in top
  <2>1. n # 0 => lines # << >>
    BY <1>1
  <2>2. n # 0 => lines[1].indent = 0
    BY <2>1 DEF FrontmatterParses
  <2> QED BY <1>6, <2>2
<1>9. PICK at : at = [k \in K |-> CHOOSE j \in top : lines[j].key = k]
  OBVIOUS
<1>10. \A k \in K : at[k] \in top /\ lines[at[k]].key = k
  BY <1>3, <1>9
<1>10a. \A k \in K : at[k] \in 1 .. n /\ at[k] \in Int
  <2>1. \A k \in K : at[k] \in 1 .. n
    BY <1>6, <1>10
  <2>2. \A x \in 1 .. n : x \in Int
    OBVIOUS
  <2> QED BY <2>1, <2>2
<1>11. \A j \in top : lines[j].key \in K /\ at[lines[j].key] = j
  BY <1>3, <1>7, <1>10
<1>12. \A j \in top : Block(lines, j) = {i \in 1 .. n : i > j /\ \A k \in j + 1 .. i : lines[k].indent > 0}
  BY <1>1 DEF Block
<1>13. IsFiniteSet(1 .. n) /\ Cardinality(1 .. n) = n
  BY FS_Interval
<1>14. IsFiniteSet(top)
  BY <1>6, <1>13, FS_Subset
<1>15. IsFiniteSet(K)
  <2>1. PICK g : g = [j \in top |-> lines[j].key]
    OBVIOUS
  <2>2. g \in Surjection(top, K)
    BY <1>3, <2>1 DEF Surjection
  <2> QED BY <1>14, <2>2, FS_Surjection
<1>16. \A k \in K : front[k].size = 1 + Cardinality(Block(lines, at[k]))
  <2> SUFFICES ASSUME NEW k \in K
               PROVE  front[k].size = 1 + Cardinality(Block(lines, at[k]))
    OBVIOUS
  <2>1. {i \in top : lines[i].key = k} = {at[k]}
    BY <1>7, <1>10
  <2>2. at[k] \in Int
    BY <1>10a
  <2>3. Max({i \in top : lines[i].key = k}) = at[k]
    BY <2>1, <2>2, MaxOfOne
  <2>4. front[k] = LET j == Max({i \in top : lines[i].key = k})
                   IN  [value |-> ValueAt(lines, j), size |-> 1 + Cardinality(Block(lines, j))]
    BY <1>2, <1>3, <1>4 DEF ParseFrontmatter
  <2> QED BY <2>3, <2>4
<1>17. DOMAIN front = K
  BY <1>2, <1>3, <1>4 DEF ParseFrontmatter
<1>18. PICK F : F = [k \in K |-> Block(lines, at[k]) \cup {at[k]}]
  OBVIOUS
<1>19. PICK f : f = [k \in K |-> front[k].size]
  OBVIOUS
<1>20. \A k \in K : IsFiniteSet(F[k]) /\ f[k] = Cardinality(F[k])
  <2> SUFFICES ASSUME NEW k \in K
               PROVE  IsFiniteSet(F[k]) /\ f[k] = Cardinality(F[k])
    OBVIOUS
  <2>1. PICK b : b = Block(lines, at[k])
    OBVIOUS
  <2>2. b \subseteq 1 .. n /\ at[k] \notin b
    <3>1. b = {i \in 1 .. n : i > at[k] /\ \A l \in at[k] + 1 .. i : lines[l].indent > 0}
      BY <1>10, <1>12, <2>1
    <3> QED BY <1>10a, <3>1
  <2>3. IsFiniteSet(b)
    BY <1>13, <2>2, FS_Subset
  <2>4. IsFiniteSet(b \cup {at[k]}) /\ Cardinality(b \cup {at[k]}) = Cardinality(b) + 1
    BY <2>2, <2>3, FS_AddElement
  <2>5. Cardinality(b) \in Nat
    BY <2>3, FS_CardinalityType
  <2> QED BY <1>16, <1>18, <1>19, <2>1, <2>4, <2>5
<1>21. ASSUME NEW k \in K, NEW l \in K, at[k] < at[l]
       PROVE  F[k] \cap F[l] = {}
  <2> SUFFICES ASSUME NEW i \in F[k], i \in F[l] PROVE FALSE
    OBVIOUS
  <2>1. at[k] \in 1 .. n /\ at[l] \in 1 .. n /\ lines[at[l]].indent = 0
    BY <1>6, <1>10
  <2>2. i \in 1 .. n /\ i >= at[l]
    BY <1>10, <1>12, <1>18, <2>1
  <2>3. i > at[k] /\ \A j \in at[k] + 1 .. i : lines[j].indent > 0
    BY <1>10, <1>12, <1>18, <1>21, <2>1, <2>2
  <2>4. at[l] \in at[k] + 1 .. i
    BY <1>21, <2>1, <2>2, <2>3
  <2> QED BY <2>1, <2>3, <2>4
<1>22. \A k, l \in K : k # l => F[k] \cap F[l] = {}
  <2> SUFFICES ASSUME NEW k \in K, NEW l \in K, k # l PROVE F[k] \cap F[l] = {}
    OBVIOUS
  <2>1. at[k] \in Int /\ at[l] \in Int /\ at[k] # at[l]
    BY <1>10, <1>10a
  <2>2. at[k] < at[l] \/ at[l] < at[k]
    BY <2>1
  <2> QED BY <1>21, <2>2
<1>23. ASSUME NEW i \in 1 .. n PROVE \E k \in K : i \in F[k]
  <2>1. PICK T : T = {t \in top : t <= i}
    OBVIOUS
  <2>2. 1 \in T
    BY <1>6, <1>8, <2>1
  <2>3. IsFiniteSet(T) /\ T # {} /\ Numbers(T)
    <3>1. T \in SUBSET top /\ T \subseteq 1 .. n
      BY <1>6, <2>1
    <3>2. T \subseteq Int
      BY <3>1
    <3> QED BY <1>14, <2>2, <3>1, <3>2, FS_Subset DEF Numbers
  <2>4. PICK j \in T : \A t \in T : t <= j
    BY <2>3, MaxIs
  <2>5. j \in top /\ j \in 1 .. n /\ j <= i
    BY <1>6, <2>1, <2>4
  <2>6. PICK k \in K : at[k] = j
    BY <1>11, <2>5
  <2>7. CASE i = j
    BY <1>18, <2>6, <2>7
  <2>8. CASE i # j
    <3>1. i > j
      BY <2>5, <2>8
    <3>2. ASSUME NEW l \in j + 1 .. i PROVE lines[l].indent > 0
      <4>1. l \in 1 .. n /\ l > j /\ l <= i
        BY <2>5
      <4>2. l \notin T
        BY <2>4, <2>5, <4>1
      <4>3. lines[l].indent # 0 /\ lines[l].indent \in 0 .. 2
        BY <1>5, <1>6, <2>1, <4>1, <4>2
      <4> QED BY <4>3
    <3>3. i \in Block(lines, j)
      BY <1>12, <2>5, <3>1, <3>2
    <3> QED BY <1>18, <2>6, <3>3
  <2> QED BY <2>7, <2>8
<1>24. \A k \in K : F[k] \subseteq 1 .. n
  BY <1>6, <1>10, <1>12, <1>18
<1>25. UNION {F[k] : k \in K} = 1 .. n
  BY <1>23, <1>24
<1>26. SumFunctionOnSet(f, K) = Cardinality(1 .. n)
  <2>1. SumFunctionOnSet(f, K) = Cardinality(UNION {F[k] : k \in K})
    BY <1>15, <1>20, <1>22, SumOfSizes
  <2> QED BY <1>25, <2>1
<1>27. Entries(front) = SumFunctionOnSet(f, K)
  BY <1>15, <1>17, <1>19, EntriesIsSum
<1> QED BY <1>1, <1>4, <1>13, <1>26, <1>27

-----------------------------------------------------------------------------
(* A plugin that is loaded: the account of a load. *)

\* What becomes of a document in a bundle, with the scripts that were beside it.
LoadedFrom(b, doc, scripts) ==
    [bundle |-> b, skill |-> SkillOf(doc, "untrusted"), stripped_scripts |-> scripts]

LoadsHere(doc) == doc \in Documents /\ LoadsSkill(doc, "untrusted")

\* A foreign skill comes in without tools and trust, and whole.
CameInWhole(s, doc) ==
    /\ s.skill.trust = "untrusted" /\ ~s.skill.tools /\ s.skill.taints = {"foreign_skill"}
    /\ s.skill.entries = Len(doc.lines)

LEMMA LoadedIsWhole ==
    ASSUME NEW b, NEW doc, NEW scripts, LoadsHere(doc)
    PROVE  /\ CameInWhole(LoadedFrom(b, doc, scripts), doc)
           /\ LoadedFrom(b, doc, scripts).bundle = b
           /\ LoadedFrom(b, doc, scripts).stripped_scripts = scripts
<1>1. doc.lines \in Seq(Line) /\ FrontmatterParses(doc.lines)
  BY IntakeAssumption DEF LoadsHere, LoadsSkill
<1>2. Entries(ParseFrontmatter(doc.lines)) = Len(doc.lines)
  BY <1>1, LinesAreCounted
<1>3. PICK front : front = ParseFrontmatter(doc.lines)
  OBVIOUS
<1>4. DeclaresTools(front) = FALSE
  BY <1>3 DEF LoadsHere, LoadsSkill, MayContributeTools, DeclaresTools
<1>5. LineageFor("untrusted") = {"foreign_skill"}
  BY DEF LineageFor, MayContributeTools, Admit, TaintForKind
<1>6. PICK s : s = SkillOf(doc, "untrusted")
  OBVIOUS
<1>7. s.trust = "untrusted" /\ s.taints = {"foreign_skill"} /\ s.entries = Len(doc.lines)
  BY <1>2, <1>5, <1>6 DEF SkillOf
<1>8. s.tools = DeclaresTools(front)
  BY <1>3, <1>6 DEF SkillOf
<1>9. ~s.tools
  BY <1>4, <1>8
<1>10. /\ LoadedFrom(b, doc, scripts).skill = s
       /\ LoadedFrom(b, doc, scripts).stripped_scripts = scripts
       /\ LoadedFrom(b, doc, scripts).bundle = b
  BY <1>6 DEF LoadedFrom
<1> QED BY <1>7, <1>9, <1>10 DEF CameInWhole

LoadedSkill ==
    {LoadedFrom(b, doc, beside.scripts) :
        b \in Bundle, doc \in {d \in Documents : LoadsHere(d)}, beside \in Documents \cup {EmptyDoc}}

PluginTyped ==
    plugin \in [manifest : BOOLEAN, skills : Seq(LoadedSkill), mcp : BOOLEAN,
                errors : SUBSET {"plugin", "manifest", "mcp"}, failed : SUBSET Bundle]

DiskTyped ==
    disk \in [root : {TRUE}, manifest : FileOf(ManifestFault),
              skills_dir : {"absent", "dir", "unlistable"}, bundle : [Bundle -> BundleFile],
              mcp : FileOf(McpFault)]

StepsTyped ==
    /\ step \in {"idle", "manifest", "listing", "bundles", "bundle", "scripts", "mcp",
                 "mcp read", "returned", "raised"}
    /\ todo \subseteq Bundle /\ base \in {NoSkill} \cup BaseSkill
    /\ touched \subseteq {"manifest", "mcp"} /\ replaced \subseteq Bundle

ManifestIsGood == disk.manifest.is = "text" /\ disk.manifest.says = {}
McpIsGood == disk.mcp.is = "text" /\ disk.mcp.says = {}
HasManifest == plugin.manifest
HasMcp == plugin.mcp
InBundles == {plugin.skills[i].bundle : i \in DOMAIN plugin.skills}

\* A load that has not yet raised, and went on.
GoesOn == step \in {"listing", "bundles", "bundle", "scripts", "mcp", "mcp read"}
          \/ (step = "returned" /\ "plugin" \notin plugin.errors)

ManifestAccounted ==
    /\ step = "manifest" => ~HasManifest /\ "manifest" \notin plugin.errors
    /\ GoesOn /\ "manifest" \notin touched =>
        (HasManifest <=> ManifestIsGood) /\ (HasManifest <=> "manifest" \notin plugin.errors)

McpAccounted ==
    /\ Loading => ~HasMcp /\ "mcp" \notin plugin.errors /\ "plugin" \notin plugin.errors
    /\ step = "mcp read" /\ "mcp" \notin touched => disk.mcp.is # "absent"
    /\ step = "returned" /\ "plugin" \notin plugin.errors /\ "mcp" \notin touched =>
        (HasMcp <=> McpIsGood) /\ (disk.mcp.is # "absent" => (HasMcp <=> "mcp" \notin plugin.errors))

\* A bundle that was read is loaded if it is good, and an error if it is not.
BundleAccounted(b, file, loaded, failed) ==
    file.is = "text" => /\ b \in loaded <=> LoadsSkill(file.says, "untrusted")
                        /\ b \in failed <=> ~LoadsSkill(file.says, "untrusted")

BundlesAccounted ==
    /\ step \in {"manifest", "listing"} => plugin.skills = << >> /\ plugin.failed = {} /\ todo = {}
    /\ step \in {"mcp", "mcp read", "returned"} => todo = {}
    /\ step \in {"bundle", "scripts"} => todo # {}
    /\ \A b \in todo : b \notin InBundles /\ b \notin plugin.failed
    /\ (GoesOn /\ step # "listing") =>
        \A b \in Bundle \ (replaced \cup todo) :
            BundleAccounted(b, disk.bundle[b], InBundles, plugin.failed)

\* The SKILL.md that was read, and whose scripts are still to be listed.
BaseAccounted ==
    step = "scripts" =>
        \E doc \in Documents :
            /\ LoadsHere(doc) /\ base = SkillOf(doc, "untrusted")
            /\ Min(todo) \notin replaced =>
                disk.bundle[Min(todo)].is = "text" /\ doc = disk.bundle[Min(todo)].says

SkillsAccounted ==
    /\ \A i, j \in DOMAIN plugin.skills : plugin.skills[i].bundle = plugin.skills[j].bundle => i = j
    /\ \A i \in DOMAIN plugin.skills :
        LET s == plugin.skills[i]
        IN  \E doc \in Documents :
                /\ LoadsHere(doc) /\ s = LoadedFrom(s.bundle, doc, s.stripped_scripts)
                /\ s.bundle \notin replaced =>
                    doc = disk.bundle[s.bundle].says /\ s.stripped_scripts = doc.scripts

IntakeInv ==
    /\ PluginTyped /\ DiskTyped /\ StepsTyped
    /\ ManifestAccounted /\ McpAccounted /\ BundlesAccounted /\ BaseAccounted
    /\ SkillsAccounted

LEMMA IntakeInvTypes ==
    ASSUME IntakeInv
    PROVE  IntakeTypeOK
BY DEF IntakeInv, PluginTyped, DiskTyped, StepsTyped, IntakeTypeOK

LEMMA IntakeInvAccounts ==
    ASSUME IntakeInv
    PROVE  LoadIsAccounted
<1> SUFFICES ASSUME step = "returned", "plugin" \notin plugin.errors
             PROVE  LET loaded == {plugin.skills[i].bundle : i \in DOMAIN plugin.skills}
                    IN  /\ "manifest" \notin touched =>
                            /\ plugin.manifest <=> disk.manifest.is = "text" /\ disk.manifest.says = {}
                            /\ plugin.manifest <=> "manifest" \notin plugin.errors
                        /\ "mcp" \notin touched =>
                            /\ plugin.mcp <=> disk.mcp.is = "text" /\ disk.mcp.says = {}
                            /\ disk.mcp.is # "absent" => (plugin.mcp <=> "mcp" \notin plugin.errors)
                        /\ \A b \in Bundle \ replaced :
                            disk.bundle[b].is = "text" =>
                                /\ b \in loaded <=> LoadsSkill(disk.bundle[b].says, "untrusted")
                                /\ b \in plugin.failed <=>
                                    ~LoadsSkill(disk.bundle[b].says, "untrusted")
                        /\ \A i, j \in DOMAIN plugin.skills :
                            plugin.skills[i].bundle = plugin.skills[j].bundle => i = j
                        /\ \A i \in DOMAIN plugin.skills :
                            LET s == plugin.skills[i]
                            IN  /\ s.skill.trust = "untrusted" /\ ~s.skill.tools
                                /\ s.skill.taints = {"foreign_skill"}
                                /\ s.bundle \notin replaced =>
                                    /\ s.skill.entries = Len(disk.bundle[s.bundle].says.lines)
                                    /\ s.stripped_scripts = disk.bundle[s.bundle].says.scripts
  BY DEF LoadIsAccounted
<1>1. GoesOn
  BY DEF GoesOn
<1>2. "manifest" \notin touched =>
        (HasManifest <=> ManifestIsGood) /\ (HasManifest <=> "manifest" \notin plugin.errors)
  BY <1>1 DEF IntakeInv, ManifestAccounted
<1>3. "mcp" \notin touched =>
        (HasMcp <=> McpIsGood) /\ (disk.mcp.is # "absent" => (HasMcp <=> "mcp" \notin plugin.errors))
  BY DEF IntakeInv, McpAccounted
<1>4. \A b \in Bundle \ replaced : BundleAccounted(b, disk.bundle[b], InBundles, plugin.failed)
  <2>1. todo = {}
    BY DEF IntakeInv, BundlesAccounted
  <2> QED BY <1>1, <2>1 DEF IntakeInv, BundlesAccounted
<1>5. \A i, j \in DOMAIN plugin.skills : plugin.skills[i].bundle = plugin.skills[j].bundle => i = j
  BY DEF IntakeInv, SkillsAccounted
<1>6. ASSUME NEW i \in DOMAIN plugin.skills
      PROVE  /\ plugin.skills[i].skill.trust = "untrusted" /\ ~plugin.skills[i].skill.tools
             /\ plugin.skills[i].skill.taints = {"foreign_skill"}
             /\ plugin.skills[i].bundle \notin replaced =>
                /\ plugin.skills[i].skill.entries = Len(disk.bundle[plugin.skills[i].bundle].says.lines)
                /\ plugin.skills[i].stripped_scripts = disk.bundle[plugin.skills[i].bundle].says.scripts
  <2>1. PICK s : s = plugin.skills[i]
    OBVIOUS
  <2>2. PICK doc \in Documents :
            /\ LoadsHere(doc) /\ s = LoadedFrom(s.bundle, doc, s.stripped_scripts)
            /\ s.bundle \notin replaced =>
                doc = disk.bundle[s.bundle].says /\ s.stripped_scripts = doc.scripts
    BY <2>1 DEF IntakeInv, SkillsAccounted
  <2>3. CameInWhole(s, doc)
    BY <2>2, LoadedIsWhole
  <2> QED BY <2>1, <2>2, <2>3 DEF CameInWhole
<1> QED BY <1>2, <1>3, <1>4, <1>5, <1>6
        DEF HasManifest, HasMcp, ManifestIsGood, McpIsGood, InBundles,
            BundleAccounted

LEMMA FewerFaults ==
    ASSUME NEW F, NEW G, F \subseteq G, NEW file \in FileOf(F)
    PROVE  file \in FileOf(G)
<1>1. CASE file \in [is : NoText, says : {{}}]
  BY <1>1 DEF FileOf
<1>2. CASE file \in [is : {"text"}, says : {{}} \cup {{f} : f \in F}]
  <2>1. file.says \in {{}} \cup {{f} : f \in G}
    BY <1>2
  <2> QED BY <1>2, <2>1 DEF FileOf
<1> QED BY <1>1, <1>2 DEF FileOf

LEMMA IntakeInitInv ==
    ASSUME IntakeInit
    PROVE  IntakeInv
<1>1. PluginTyped
  <2>1. << >> \in Seq(LoadedSkill)
    OBVIOUS
  <2> QED BY <2>1 DEF IntakeInit, PluginTyped, NothingLoaded
<1>2. DiskTyped
  <2>1. disk \in [root : {TRUE}, manifest : FileOf({"no name"}),
                 skills_dir : {"absent", "dir", "unlistable"}, bundle : [Bundle -> BundleFile],
                 mcp : FileOf({"not JSON", "huge number"})]
    BY DEF IntakeInit
  <2>2. {"no name"} \subseteq ManifestFault /\ {"not JSON", "huge number"} \subseteq McpFault
    BY DEF ManifestFault, McpFault, NameFault
  <2>3. disk.manifest \in FileOf(ManifestFault) /\ disk.mcp \in FileOf(McpFault)
    BY <2>1, <2>2, FewerFaults
  <2> QED BY <2>1, <2>3 DEF DiskTyped
<1>3. StepsTyped
  BY DEF IntakeInit, StepsTyped
<1>4. step = "idle" /\ todo = {}
  BY DEF IntakeInit
<1>4a. BaseAccounted
  BY <1>4 DEF BaseAccounted
<1>5. ManifestAccounted /\ McpAccounted
  BY <1>4 DEF ManifestAccounted, McpAccounted, GoesOn, Loading
<1>6. BundlesAccounted
  BY <1>4 DEF BundlesAccounted, GoesOn
<1>7. plugin.skills = << >>
  BY DEF IntakeInit, NothingLoaded
<1>8. SkillsAccounted
  BY <1>7 DEF SkillsAccounted
<1> QED BY <1>1, <1>2, <1>3, <1>4a, <1>5, <1>6, <1>8 DEF IntakeInv

-----------------------------------------------------------------------------
(* Each step of a load keeps the account. *)

\* Naturals have a least one among them, which Min is.
LEMMA LeastIs ==
    ASSUME NEW S, S \subseteq Nat, S # {}
    PROVE  \E x \in S : \A y \in S : x <= y
<1>1. PICK m \in S : \A y \in S : ~ (<<y, m>> \in OpToRel(<, Nat))
  BY NatLessThanWellFounded, WFMin
<1>2. \A y \in S : m \in Nat /\ y \in Nat /\ ~ (y < m)
  BY <1>1 DEF OpToRel
<1> QED BY <1>2

LEMMA MinIsIn ==
    ASSUME NEW S, S \subseteq Nat, S # {}
    PROVE  Min(S) \in S
BY LeastIs DEF Min

\* The bundle at hand is one that was listed.
LEMMA FirstIsIn ==
    ASSUME IntakeInv, step \in {"bundle", "scripts"}
    PROVE  Min(todo) \in todo /\ Min(todo) \in Bundle
<1>1. todo # {} /\ todo \subseteq Bundle
  BY DEF IntakeInv, BundlesAccounted, StepsTyped
<1>2. todo \subseteq Nat
  BY <1>1, IntakeAssumption
<1> QED BY <1>1, <1>2, MinIsIn

LEMMA SkillsStay ==
    ASSUME IntakeInv, plugin'.skills = plugin.skills, disk'.bundle = disk.bundle,
           replaced' = replaced
    PROVE  SkillsAccounted' /\ InBundles' = InBundles
BY DEF IntakeInv, SkillsAccounted, InBundles

\* The load raises: nothing is said of what it leaves.
LEMMA EscapeKeeps ==
    ASSUME IntakeInv, Escapes
    PROVE  IntakeInv'
<1>1. step' = "raised" /\ UNCHANGED <<disk, touched, replaced, todo, base, plugin>>
  BY DEF Escapes, Goes
<1>2. PluginTyped' /\ DiskTyped' /\ StepsTyped'
  BY <1>1 DEF IntakeInv, PluginTyped, DiskTyped, StepsTyped
<1>3. ManifestAccounted' /\ McpAccounted' /\ BaseAccounted'
  BY <1>1 DEF ManifestAccounted, McpAccounted, BaseAccounted, GoesOn, Loading
<1>4. SkillsAccounted' /\ InBundles' = InBundles
  BY <1>1, SkillsStay
<1>5. BundlesAccounted'
  BY <1>1, <1>4 DEF IntakeInv, BundlesAccounted, GoesOn
<1> QED BY <1>2, <1>3, <1>4, <1>5 DEF IntakeInv

LEMMA LoadKeeps ==
    ASSUME IntakeInv, NEW is_dir \in BOOLEAN, Load(is_dir)
    PROVE  IntakeInv'
<1>1. /\ touched' = {} /\ replaced' = {} /\ todo' = {} /\ disk' = disk /\ base' = NoSkill
      /\ \/ step' = "manifest" /\ plugin' = [NothingLoaded EXCEPT !.errors = {}]
         \/ step' = "returned" /\ plugin' = [NothingLoaded EXCEPT !.errors = {"plugin"}]
  BY DEF Load
<1>2. /\ plugin' \in [manifest : BOOLEAN, skills : Seq(LoadedSkill), mcp : BOOLEAN,
                     errors : SUBSET {"plugin", "manifest", "mcp"}, failed : SUBSET Bundle]
      /\ plugin'.manifest = FALSE /\ plugin'.mcp = FALSE
      /\ plugin'.skills = << >> /\ plugin'.failed = {}
      /\ \/ step' = "manifest" /\ plugin'.errors = {}
         \/ step' = "returned" /\ plugin'.errors = {"plugin"}
  <2>1. << >> \in Seq(LoadedSkill)
    OBVIOUS
  <2> QED BY <1>1, <2>1 DEF NothingLoaded
<1>3. PluginTyped' /\ DiskTyped' /\ StepsTyped'
  BY <1>1, <1>2 DEF IntakeInv, PluginTyped, DiskTyped, StepsTyped
<1>4. ~HasManifest' /\ ~HasMcp'
  BY <1>2 DEF HasManifest, HasMcp
<1>5. ManifestAccounted'
  BY <1>2, <1>4 DEF ManifestAccounted, GoesOn
<1>6. McpAccounted'
  BY <1>2, <1>4 DEF McpAccounted, Loading
<1>7. BundlesAccounted'
  BY <1>1, <1>2 DEF BundlesAccounted, GoesOn
<1>8. SkillsAccounted'
  BY <1>2 DEF SkillsAccounted
<1>9. BaseAccounted'
  BY <1>1 DEF BaseAccounted
<1> QED BY <1>3, <1>5, <1>6, <1>7, <1>8, <1>9 DEF IntakeInv

LEMMA LoadManifestKeeps ==
    ASSUME IntakeInv, LoadManifest
    PROVE  IntakeInv'
<1>1. CASE Escapes
  BY <1>1, EscapeKeeps
<1>2. CASE ~Escapes
  <2>1. /\ step = "manifest" /\ step' = "listing"
        /\ UNCHANGED <<disk, touched, replaced, todo, base>>
        /\ \/ ManifestIsGood /\ plugin' = [plugin EXCEPT !.manifest = TRUE]
           \/ ~ManifestIsGood /\ plugin' = [plugin EXCEPT !.errors = @ \cup {"manifest"}]
    BY <1>2 DEF LoadManifest, Goes, Fails, ManifestIsGood
  <2>2. PluginTyped
    BY DEF IntakeInv
  <2>3. plugin'.skills = plugin.skills /\ plugin'.failed = plugin.failed /\ plugin'.mcp = plugin.mcp
    BY <2>1, <2>2 DEF PluginTyped
  <2>4. \/ ManifestIsGood /\ plugin'.manifest = TRUE /\ plugin'.errors = plugin.errors
        \/ /\ ~ManifestIsGood /\ plugin'.manifest = plugin.manifest
           /\ plugin'.errors = plugin.errors \cup {"manifest"}
    BY <2>1, <2>2 DEF PluginTyped
  <2>5. PluginTyped'
    BY <2>1, <2>2 DEF PluginTyped
  <2>6. DiskTyped' /\ StepsTyped'
    BY <2>1 DEF IntakeInv, DiskTyped, StepsTyped
  <2>7. HasMcp' <=> HasMcp
    BY <2>3 DEF HasMcp
  <2>8. ManifestIsGood' <=> ManifestIsGood
    BY <2>1 DEF ManifestIsGood
  <2>9. ~HasManifest /\ "manifest" \notin plugin.errors
    BY <2>1 DEF IntakeInv, ManifestAccounted
  <2>10. \/ ManifestIsGood /\ HasManifest' /\ plugin'.errors = plugin.errors
         \/ /\ ~ManifestIsGood /\ ~HasManifest'
            /\ plugin'.errors = plugin.errors \cup {"manifest"}
    BY <2>4, <2>9 DEF HasManifest
  <2>11. ManifestAccounted'
    BY <2>1, <2>8, <2>9, <2>10 DEF ManifestAccounted
  <2>12. McpAccounted'
    BY <2>1, <2>4, <2>7 DEF IntakeInv, McpAccounted, Loading
  <2>13. SkillsAccounted' /\ InBundles' = InBundles
    BY <2>1, <2>3, SkillsStay
  <2>14. BundlesAccounted'
    BY <2>1, <2>3, <2>13 DEF IntakeInv, BundlesAccounted
  <2>15. BaseAccounted'
    BY <2>1 DEF BaseAccounted
  <2> QED BY <2>5, <2>6, <2>11, <2>12, <2>13, <2>14, <2>15 DEF IntakeInv
<1> QED BY <1>1, <1>2

\* A step of the loader that reads and goes on.
LEMMA ReadOnly ==
    ASSUME IntakeInv, UNCHANGED <<disk, touched, replaced, plugin>>
    PROVE  /\ PluginTyped' /\ DiskTyped' /\ SkillsAccounted'
           /\ InBundles' = InBundles /\ (HasManifest' <=> HasManifest) /\ (HasMcp' <=> HasMcp)
           /\ (ManifestIsGood' <=> ManifestIsGood) /\ (McpIsGood' <=> McpIsGood)
<1>1. PluginTyped' /\ DiskTyped'
  BY DEF IntakeInv, PluginTyped, DiskTyped
<1>2. SkillsAccounted' /\ InBundles' = InBundles
  BY SkillsStay
<1>3. (HasManifest' <=> HasManifest) /\ (HasMcp' <=> HasMcp)
  BY DEF HasManifest, HasMcp
<1>4. (ManifestIsGood' <=> ManifestIsGood) /\ (McpIsGood' <=> McpIsGood)
  BY DEF ManifestIsGood, McpIsGood
<1> QED BY <1>1, <1>2, <1>3, <1>4

LEMMA ListBundlesKeeps ==
    ASSUME IntakeInv, ListBundles
    PROVE  IntakeInv'
<1>1. CASE Escapes
  BY <1>1, EscapeKeeps
<1>2. CASE ~Escapes
  <2>1. /\ step = "listing" /\ step' = "bundles" /\ base' = base
        /\ UNCHANGED <<disk, touched, replaced, plugin>>
        /\ todo' = {b \in Bundle : disk.bundle[b].is # "absent"}
    BY <1>2 DEF ListBundles, Goes
  <2>2. /\ PluginTyped' /\ DiskTyped' /\ SkillsAccounted'
        /\ InBundles' = InBundles /\ (HasManifest' <=> HasManifest) /\ (HasMcp' <=> HasMcp)
        /\ (ManifestIsGood' <=> ManifestIsGood) /\ (McpIsGood' <=> McpIsGood)
    BY <2>1, ReadOnly
  <2>3. StepsTyped'
    BY <2>1 DEF IntakeInv, StepsTyped
  <2>4. ManifestAccounted'
    BY <2>1, <2>2 DEF IntakeInv, ManifestAccounted, GoesOn
  <2>5. McpAccounted'
    BY <2>1, <2>2 DEF IntakeInv, McpAccounted, Loading
  <2>6. plugin.skills = << >> /\ plugin.failed = {}
    BY <2>1 DEF IntakeInv, BundlesAccounted
  <2>7. InBundles = {}
    BY <2>6 DEF InBundles
  <2>8. BundlesAccounted'
    BY <2>1, <2>2, <2>6, <2>7 DEF BundlesAccounted, BundleAccounted
  <2>9. BaseAccounted'
    BY <2>1 DEF BaseAccounted
  <2> QED BY <2>2, <2>3, <2>4, <2>5, <2>8, <2>9 DEF IntakeInv
<1> QED BY <1>1, <1>2

LEMMA CheckBundleKeeps ==
    ASSUME IntakeInv, CheckBundle
    PROVE  IntakeInv'
<1>1. PICK b : b = Min(todo)
  OBVIOUS
<1>2. /\ step = "bundles" /\ todo # {} /\ base' = base
      /\ UNCHANGED <<disk, touched, replaced, plugin>>
      /\ \/ /\ disk.bundle[b].is \in {"absent", "plain"}
            /\ step' = "bundles" /\ todo' = todo \ {b}
         \/ step' = "bundle" /\ todo' = todo
  BY <1>1 DEF CheckBundle, Goes
<1>3. /\ PluginTyped' /\ DiskTyped' /\ SkillsAccounted'
      /\ InBundles' = InBundles /\ (HasManifest' <=> HasManifest) /\ (HasMcp' <=> HasMcp)
      /\ (ManifestIsGood' <=> ManifestIsGood) /\ (McpIsGood' <=> McpIsGood)
  BY <1>2, ReadOnly
<1>4. StepsTyped'
  BY <1>2 DEF IntakeInv, StepsTyped
<1>5. ManifestAccounted'
  BY <1>2, <1>3 DEF IntakeInv, ManifestAccounted, GoesOn
<1>6. McpAccounted'
  BY <1>2, <1>3 DEF IntakeInv, McpAccounted, Loading
<1>7. \A c \in Bundle \ (replaced \cup todo) :
        BundleAccounted(c, disk.bundle[c], InBundles, plugin.failed)
  BY <1>2 DEF IntakeInv, BundlesAccounted, GoesOn
<1>8. \A c \in Bundle \ (replaced \cup todo') :
        BundleAccounted(c, disk.bundle[c], InBundles, plugin.failed)
  BY <1>2, <1>7 DEF BundleAccounted
<1>9. \A c \in todo' : c \notin InBundles /\ c \notin plugin.failed
  BY <1>2 DEF IntakeInv, BundlesAccounted
<1>10. BundlesAccounted'
  BY <1>2, <1>3, <1>8, <1>9 DEF BundlesAccounted
<1>11. BaseAccounted'
  BY <1>2 DEF BaseAccounted
<1> QED BY <1>3, <1>4, <1>5, <1>6, <1>10, <1>11 DEF IntakeInv

LEMMA AfterBundlesKeeps ==
    ASSUME IntakeInv, AfterBundles
    PROVE  IntakeInv'
<1>2. /\ step = "bundles" /\ todo = {} /\ step' = "mcp" /\ todo' = todo /\ base' = base
      /\ UNCHANGED <<disk, touched, replaced, plugin>>
  BY DEF AfterBundles, Goes
<1>3. /\ PluginTyped' /\ DiskTyped' /\ SkillsAccounted'
      /\ InBundles' = InBundles /\ (HasManifest' <=> HasManifest) /\ (HasMcp' <=> HasMcp)
      /\ (ManifestIsGood' <=> ManifestIsGood) /\ (McpIsGood' <=> McpIsGood)
  BY <1>2, ReadOnly
<1>4. StepsTyped'
  BY <1>2 DEF IntakeInv, StepsTyped
<1>5. ManifestAccounted'
  BY <1>2, <1>3 DEF IntakeInv, ManifestAccounted, GoesOn
<1>6. McpAccounted'
  BY <1>2, <1>3 DEF IntakeInv, McpAccounted, Loading
<1>7. BundlesAccounted'
  BY <1>2, <1>3 DEF IntakeInv, BundlesAccounted, GoesOn
<1>8. BaseAccounted'
  BY <1>2 DEF BaseAccounted
<1> QED BY <1>3, <1>4, <1>5, <1>6, <1>7, <1>8 DEF IntakeInv

LEMMA CheckMcpKeeps ==
    ASSUME IntakeInv, CheckMcp
    PROVE  IntakeInv'
<1>2. /\ step = "mcp" /\ todo' = todo /\ base' = base
      /\ UNCHANGED <<disk, touched, replaced, plugin>>
      /\ \/ disk.mcp.is = "absent" /\ step' = "returned"
         \/ disk.mcp.is # "absent" /\ step' = "mcp read"
  BY DEF CheckMcp, Goes
<1>3. /\ PluginTyped' /\ DiskTyped' /\ SkillsAccounted'
      /\ InBundles' = InBundles /\ (HasManifest' <=> HasManifest) /\ (HasMcp' <=> HasMcp)
      /\ (ManifestIsGood' <=> ManifestIsGood) /\ (McpIsGood' <=> McpIsGood)
  BY <1>2, ReadOnly
<1>4. StepsTyped'
  BY <1>2 DEF IntakeInv, StepsTyped
<1>5. ManifestAccounted'
  BY <1>2, <1>3 DEF IntakeInv, ManifestAccounted, GoesOn
<1>6. disk.mcp.is = "absent" => ~McpIsGood
  BY DEF McpIsGood
<1>7. ~HasMcp /\ "mcp" \notin plugin.errors /\ "plugin" \notin plugin.errors
  BY <1>2 DEF IntakeInv, McpAccounted, Loading
<1>8. McpAccounted'
  BY <1>2, <1>3, <1>6, <1>7 DEF McpAccounted
<1>9. BundlesAccounted'
  BY <1>2, <1>3 DEF IntakeInv, BundlesAccounted, GoesOn
<1>10. BaseAccounted'
  BY <1>2 DEF BaseAccounted
<1> QED BY <1>3, <1>4, <1>5, <1>8, <1>9, <1>10 DEF IntakeInv

LEMMA LoadMcpKeeps ==
    ASSUME IntakeInv, LoadMcp
    PROVE  IntakeInv'
<1>1. CASE Escapes
  BY <1>1, EscapeKeeps
<1>2. CASE ~Escapes
  <2>1. /\ step = "mcp read" /\ step' = "returned"
        /\ UNCHANGED <<disk, touched, replaced, todo, base>>
        /\ \/ McpIsGood /\ plugin' = [plugin EXCEPT !.mcp = TRUE]
           \/ ~McpIsGood /\ plugin' = [plugin EXCEPT !.errors = @ \cup {"mcp"}]
    BY <1>2 DEF LoadMcp, Goes, Fails, McpIsGood
  <2>2. PluginTyped
    BY DEF IntakeInv
  <2>3. plugin'.skills = plugin.skills /\ plugin'.failed = plugin.failed
        /\ plugin'.manifest = plugin.manifest
    BY <2>1, <2>2 DEF PluginTyped
  <2>4. \/ McpIsGood /\ plugin'.mcp = TRUE /\ plugin'.errors = plugin.errors
        \/ /\ ~McpIsGood /\ plugin'.mcp = plugin.mcp
           /\ plugin'.errors = plugin.errors \cup {"mcp"}
    BY <2>1, <2>2 DEF PluginTyped
  <2>5. PluginTyped'
    BY <2>1, <2>2 DEF PluginTyped
  <2>6. DiskTyped' /\ StepsTyped'
    BY <2>1 DEF IntakeInv, DiskTyped, StepsTyped
  <2>7. (HasManifest' <=> HasManifest) /\ (ManifestIsGood' <=> ManifestIsGood)
    BY <2>1, <2>3 DEF HasManifest, ManifestIsGood
  <2>8. McpIsGood' <=> McpIsGood
    BY <2>1 DEF McpIsGood
  <2>9. ~HasMcp /\ "mcp" \notin plugin.errors /\ "plugin" \notin plugin.errors
    BY <2>1 DEF IntakeInv, McpAccounted, Loading
  <2>10. \/ McpIsGood /\ HasMcp' /\ plugin'.errors = plugin.errors
         \/ ~McpIsGood /\ ~HasMcp' /\ plugin'.errors = plugin.errors \cup {"mcp"}
    BY <2>4, <2>9 DEF HasMcp
  <2>11. ManifestAccounted'
    BY <2>1, <2>4, <2>7 DEF IntakeInv, ManifestAccounted, GoesOn
  <2>12. McpAccounted'
    BY <2>1, <2>8, <2>9, <2>10 DEF McpAccounted, Loading
  <2>13. SkillsAccounted' /\ InBundles' = InBundles
    BY <2>1, <2>3, SkillsStay
  <2>14. BundlesAccounted'
    BY <2>1, <2>3, <2>13 DEF IntakeInv, BundlesAccounted, GoesOn
  <2>15. BaseAccounted'
    BY <2>1 DEF BaseAccounted
  <2> QED BY <2>5, <2>6, <2>11, <2>12, <2>13, <2>14, <2>15 DEF IntakeInv
<1> QED BY <1>1, <1>2

LEMMA ReplaceKeeps ==
    ASSUME IntakeInv, NEW file \in FileOf({}), NEW mpart \in {"manifest", "mcp"},
           Replace(mpart, file)
    PROVE  IntakeInv'
<1>1. /\ Loading /\ touched' = touched \cup {mpart} /\ UNCHANGED <<step, todo, base, plugin, replaced>>
      /\ disk' = [disk EXCEPT ![mpart] = file]
  BY DEF Replace, MayReplace
<1>2. file \in FileOf(ManifestFault) /\ file \in FileOf(McpFault)
  BY FewerFaults
<1>3. DiskTyped
  BY DEF IntakeInv
<1>4. DiskTyped' /\ disk'.bundle = disk.bundle
  BY <1>1, <1>2, <1>3 DEF DiskTyped
<1>5. /\ mpart = "manifest" => disk'.mcp = disk.mcp
      /\ mpart = "mcp" => disk'.manifest = disk.manifest
  BY <1>1, <1>3 DEF DiskTyped
<1>6. PluginTyped' /\ StepsTyped'
  BY <1>1 DEF IntakeInv, PluginTyped, StepsTyped
<1>7. SkillsAccounted' /\ InBundles' = InBundles
  BY <1>1, <1>4, SkillsStay
<1>8. (HasManifest' <=> HasManifest) /\ (HasMcp' <=> HasMcp)
  BY <1>1 DEF HasManifest, HasMcp
<1>9. /\ mpart = "manifest" => (McpIsGood' <=> McpIsGood)
      /\ mpart = "mcp" => (ManifestIsGood' <=> ManifestIsGood)
  BY <1>5 DEF ManifestIsGood, McpIsGood
<1>10. ManifestAccounted'
  BY <1>1, <1>8, <1>9 DEF IntakeInv, ManifestAccounted, GoesOn
<1>11. McpAccounted'
  BY <1>1, <1>5, <1>8, <1>9 DEF IntakeInv, McpAccounted, Loading
<1>12. BundlesAccounted'
  BY <1>1, <1>4, <1>7 DEF IntakeInv, BundlesAccounted, GoesOn
<1>13. BaseAccounted'
  BY <1>1, <1>4 DEF IntakeInv, BaseAccounted
<1> QED BY <1>4, <1>6, <1>7, <1>10, <1>11, <1>12, <1>13 DEF IntakeInv

LEMMA ReplaceBundleKeeps ==
    ASSUME IntakeInv, NEW file \in BundleFile, NEW b \in Bundle, ReplaceBundle(b, file)
    PROVE  IntakeInv'
<1>1. /\ Loading /\ replaced' = replaced \cup {b} /\ UNCHANGED <<step, todo, base, plugin, touched>>
      /\ disk' = [disk EXCEPT !.bundle[b] = file]
  BY DEF ReplaceBundle, MayReplace
<1>2. DiskTyped
  BY DEF IntakeInv
<1>3. DiskTyped' /\ disk'.manifest = disk.manifest /\ disk'.mcp = disk.mcp
  BY <1>1, <1>2 DEF DiskTyped
<1>4. \A c \in Bundle \ replaced' : disk'.bundle[c] = disk.bundle[c]
  BY <1>1, <1>2 DEF DiskTyped
<1>5. PluginTyped' /\ StepsTyped'
  BY <1>1 DEF IntakeInv, PluginTyped, StepsTyped
<1>6. /\ (HasManifest' <=> HasManifest) /\ (HasMcp' <=> HasMcp)
      /\ (ManifestIsGood' <=> ManifestIsGood) /\ (McpIsGood' <=> McpIsGood)
  BY <1>1, <1>3 DEF HasManifest, HasMcp, ManifestIsGood, McpIsGood
<1>7. ManifestAccounted'
  BY <1>1, <1>6 DEF IntakeInv, ManifestAccounted, GoesOn
<1>8. McpAccounted'
  BY <1>1, <1>3, <1>6 DEF IntakeInv, McpAccounted, Loading
<1>9. InBundles' = InBundles
  BY <1>1 DEF InBundles
<1>10. BundlesAccounted'
  <2>1. (GoesOn /\ step # "listing") =>
            \A c \in Bundle \ (replaced \cup todo) :
                BundleAccounted(c, disk.bundle[c], InBundles, plugin.failed)
    BY DEF IntakeInv, BundlesAccounted
  <2>2. (GoesOn /\ step # "listing")' =>
            \A c \in Bundle \ (replaced' \cup todo') :
                BundleAccounted(c, disk'.bundle[c], InBundles', plugin'.failed)
    BY <1>1, <1>4, <1>9, <2>1 DEF GoesOn
  <2> QED BY <1>1, <1>9, <2>2 DEF IntakeInv, BundlesAccounted
<1>11. SkillsAccounted'
  <2>1. \A i, j \in DOMAIN plugin'.skills :
            plugin'.skills[i].bundle = plugin'.skills[j].bundle => i = j
    BY <1>1 DEF IntakeInv, SkillsAccounted
  <2>2. ASSUME NEW i \in DOMAIN plugin'.skills
        PROVE  \E doc \in Documents :
                /\ LoadsHere(doc)
                /\ plugin'.skills[i] = LoadedFrom(plugin'.skills[i].bundle, doc,
                                                  plugin'.skills[i].stripped_scripts)
                /\ plugin'.skills[i].bundle \notin replaced' =>
                    /\ doc = disk'.bundle[plugin'.skills[i].bundle].says
                    /\ plugin'.skills[i].stripped_scripts = doc.scripts
    <3>1. PICK s : s = plugin.skills[i]
      OBVIOUS
    <3>2. PICK doc \in Documents :
            /\ LoadsHere(doc) /\ s = LoadedFrom(s.bundle, doc, s.stripped_scripts)
            /\ s.bundle \notin replaced =>
                doc = disk.bundle[s.bundle].says /\ s.stripped_scripts = doc.scripts
      BY <1>1, <2>2, <3>1 DEF IntakeInv, SkillsAccounted
    <3>3. s.bundle \in Bundle
      <4>1. s \in LoadedSkill
        BY <1>1, <2>2, <3>1 DEF IntakeInv, PluginTyped
      <4> QED BY <4>1 DEF LoadedSkill, LoadedFrom
    <3>4. s.bundle \notin replaced' =>
            doc = disk'.bundle[s.bundle].says /\ s.stripped_scripts = doc.scripts
      BY <1>1, <1>4, <3>2, <3>3
    <3>5. s = plugin'.skills[i]
      BY <1>1, <3>1
    <3> QED BY <3>2, <3>4, <3>5
  <2> QED BY <2>1, <2>2 DEF SkillsAccounted
<1>12. BaseAccounted'
  <2>1. ASSUME step = "scripts"
        PROVE  \E doc \in Documents :
                /\ LoadsHere(doc) /\ base' = SkillOf(doc, "untrusted")
                /\ Min(todo) \notin replaced' =>
                    disk'.bundle[Min(todo)].is = "text" /\ doc = disk'.bundle[Min(todo)].says
    <3>1. PICK doc \in Documents :
            /\ LoadsHere(doc) /\ base = SkillOf(doc, "untrusted")
            /\ Min(todo) \notin replaced =>
                disk.bundle[Min(todo)].is = "text" /\ doc = disk.bundle[Min(todo)].says
      BY <2>1 DEF IntakeInv, BaseAccounted
    <3>2. Min(todo) \in Bundle
      BY <2>1, FirstIsIn
    <3> QED BY <1>1, <1>4, <3>1, <3>2
  <2>2. step' = step /\ todo' = todo
    BY <1>1
  <2> QED BY <2>1, <2>2 DEF BaseAccounted
<1> QED BY <1>3, <1>5, <1>7, <1>8, <1>10, <1>11, <1>12 DEF IntakeInv

LEMMA LoadBundleKeeps ==
    ASSUME IntakeInv, LoadBundle
    PROVE  IntakeInv'
<1>1. CASE Escapes
  BY <1>1, EscapeKeeps
<1>2. CASE ~Escapes
  <2>1. PICK b : b = Min(todo)
    OBVIOUS
  <2>2. step = "bundle" /\ b \in todo /\ b \in Bundle
    <3>1. step = "bundle"
      BY DEF LoadBundle
    <3> QED BY <2>1, <3>1, FirstIsIn
  <2>3. PICK file : file = disk.bundle[b]
    OBVIOUS
  <2>4. /\ UNCHANGED <<disk, touched, replaced>>
        /\ \/ /\ file.is = "text" /\ LoadsSkill(file.says, "untrusted")
              /\ base' = SkillOf(file.says, "untrusted") /\ step' = "scripts"
              /\ UNCHANGED <<todo, plugin>>
           \/ /\ ~(file.is = "text" /\ LoadsSkill(file.says, "untrusted"))
              /\ plugin' = [plugin EXCEPT !.failed = @ \cup {b}]
              /\ todo' = todo \ {b} /\ step' = "bundles" /\ base' = base
    BY <1>2, <2>1, <2>3 DEF LoadBundle, Goes, LeftAfter
  <2>5. PluginTyped /\ DiskTyped
    BY DEF IntakeInv
  <2>6. file.is = "text" => file.says \in Documents
    <3>1. file \in BundleFile
      BY <2>2, <2>3, <2>5 DEF DiskTyped
    <3> QED BY <3>1 DEF BundleFile, NoText
  <2>7. CASE /\ file.is = "text" /\ LoadsSkill(file.says, "untrusted")
             /\ base' = SkillOf(file.says, "untrusted") /\ step' = "scripts"
             /\ UNCHANGED <<todo, plugin>>
    <3>1. /\ PluginTyped' /\ DiskTyped' /\ SkillsAccounted'
          /\ InBundles' = InBundles /\ (HasManifest' <=> HasManifest) /\ (HasMcp' <=> HasMcp)
          /\ (ManifestIsGood' <=> ManifestIsGood) /\ (McpIsGood' <=> McpIsGood)
      BY <2>4, <2>7, ReadOnly
    <3>2. LoadsHere(file.says) /\ file.says \in Documents
      BY <2>6, <2>7 DEF LoadsHere
    <3>3. StepsTyped'
      BY <2>4, <2>7, <3>2 DEF IntakeInv, StepsTyped, BaseSkill
    <3>4. ManifestAccounted'
      BY <2>2, <2>4, <2>7, <3>1 DEF IntakeInv, ManifestAccounted, GoesOn
    <3>5. McpAccounted'
      BY <2>2, <2>4, <2>7, <3>1 DEF IntakeInv, McpAccounted, Loading
    <3>6. BundlesAccounted'
      BY <2>2, <2>4, <2>7, <3>1 DEF IntakeInv, BundlesAccounted, GoesOn
    <3>7. BaseAccounted'
      BY <2>1, <2>3, <2>4, <2>7, <3>2 DEF BaseAccounted
    <3> QED BY <3>1, <3>3, <3>4, <3>5, <3>6, <3>7 DEF IntakeInv
  <2>8. CASE /\ ~(file.is = "text" /\ LoadsSkill(file.says, "untrusted"))
             /\ plugin' = [plugin EXCEPT !.failed = @ \cup {b}]
             /\ todo' = todo \ {b} /\ step' = "bundles" /\ base' = base
    <3>1. /\ plugin'.manifest = plugin.manifest /\ plugin'.mcp = plugin.mcp
          /\ plugin'.errors = plugin.errors /\ plugin'.skills = plugin.skills
          /\ plugin'.failed = plugin.failed \cup {b}
      BY <2>5, <2>8 DEF PluginTyped
    <3>2. PluginTyped'
      BY <2>2, <2>5, <2>8 DEF PluginTyped
    <3>3. DiskTyped' /\ StepsTyped'
      BY <2>4, <2>8 DEF IntakeInv, DiskTyped, StepsTyped
    <3>4. /\ (HasManifest' <=> HasManifest) /\ (HasMcp' <=> HasMcp)
          /\ (ManifestIsGood' <=> ManifestIsGood) /\ (McpIsGood' <=> McpIsGood)
      BY <2>4, <3>1 DEF HasManifest, HasMcp, ManifestIsGood, McpIsGood
    <3>5. ManifestAccounted'
      BY <2>2, <2>4, <2>8, <3>1, <3>4 DEF IntakeInv, ManifestAccounted, GoesOn
    <3>6. McpAccounted'
      BY <2>2, <2>4, <2>8, <3>1, <3>4 DEF IntakeInv, McpAccounted, Loading
    <3>7. SkillsAccounted' /\ InBundles' = InBundles
      BY <2>4, <3>1, SkillsStay
    <3>8. b \notin InBundles
      BY <2>2 DEF IntakeInv, BundlesAccounted
    <3>9. BundlesAccounted'
      <4>1. \A c \in todo' : c \notin InBundles' /\ c \notin plugin'.failed
        BY <2>8, <3>1, <3>7 DEF IntakeInv, BundlesAccounted
      <4>2. \A c \in Bundle \ (replaced \cup todo) :
                BundleAccounted(c, disk.bundle[c], InBundles, plugin.failed)
        BY <2>2 DEF IntakeInv, BundlesAccounted, GoesOn
      <4>3. ASSUME NEW c \in Bundle \ (replaced' \cup todo')
            PROVE  BundleAccounted(c, disk'.bundle[c], InBundles', plugin'.failed)
        <5>1. CASE c = b
          BY <2>3, <2>4, <2>8, <3>1, <3>7, <3>8, <5>1 DEF BundleAccounted
        <5>2. CASE c # b
          <6>1. BundleAccounted(c, disk.bundle[c], InBundles, plugin.failed)
            BY <2>4, <2>8, <4>2, <4>3, <5>2
          <6> QED BY <2>4, <3>1, <3>7, <5>2, <6>1 DEF BundleAccounted
        <5> QED BY <5>1, <5>2
      <4> QED BY <2>8, <4>1, <4>3 DEF BundlesAccounted
    <3>10. BaseAccounted'
      BY <2>8 DEF BaseAccounted
    <3> QED BY <3>2, <3>3, <3>5, <3>6, <3>7, <3>9, <3>10 DEF IntakeInv
  <2> QED BY <2>4, <2>7, <2>8
<1> QED BY <1>1, <1>2

LEMMA RecordScriptsKeeps ==
    ASSUME IntakeInv, RecordScripts
    PROVE  IntakeInv'
<1>1. PICK b : b = Min(todo)
  OBVIOUS
<1>2. step = "scripts" /\ b \in todo /\ b \in Bundle
  <2>1. step = "scripts"
    BY DEF RecordScripts
  <2> QED BY <1>1, <2>1, FirstIsIn
<1>3. PluginTyped /\ DiskTyped
  BY DEF IntakeInv
<1>4. PICK scripts : scripts = disk.bundle[b].says.scripts
  OBVIOUS
<1>5. PICK doc \in Documents :
        /\ LoadsHere(doc) /\ base = SkillOf(doc, "untrusted")
        /\ b \notin replaced => disk.bundle[b].is = "text" /\ doc = disk.bundle[b].says
  BY <1>1, <1>2 DEF IntakeInv, BaseAccounted
<1>6. PICK s : s = LoadedFrom(b, doc, scripts)
  OBVIOUS
<1>7. /\ step' = "bundles" /\ todo' = todo \ {b} /\ base' = NoSkill
      /\ UNCHANGED <<disk, touched, replaced>>
      /\ plugin' = [plugin EXCEPT !.skills = Append(@, s)]
  BY <1>1, <1>4, <1>5, <1>6 DEF RecordScripts, Goes, LeftAfter, CollectScripts, LoadedFrom
<1>8. s.bundle = b /\ s.stripped_scripts = scripts
  BY <1>5, <1>6, LoadedIsWhole
<1>9. s \in LoadedSkill
  <2>1. disk.bundle[b] \in BundleFile
    BY <1>2, <1>3 DEF DiskTyped
  <2>2. disk.bundle[b].says \in Documents \cup {EmptyDoc}
    BY <2>1 DEF BundleFile
  <2> QED BY <1>2, <1>4, <1>5, <1>6, <2>2 DEF LoadedSkill
<1>10. PICK q : q = Append(plugin.skills, s)
  OBVIOUS
<1>11. /\ plugin' = [plugin EXCEPT !.skills = q] /\ plugin'.skills = q
       /\ plugin'.manifest = plugin.manifest /\ plugin'.mcp = plugin.mcp
       /\ plugin'.errors = plugin.errors /\ plugin'.failed = plugin.failed
  BY <1>3, <1>7, <1>10 DEF PluginTyped
<1>12. plugin.skills \in Seq(LoadedSkill)
  BY <1>3 DEF PluginTyped
<1>13. q \in Seq(LoadedSkill)
  BY <1>9, <1>10, <1>12
<1>14. PluginTyped'
  BY <1>3, <1>11, <1>13 DEF PluginTyped
<1>15. DiskTyped' /\ StepsTyped'
  BY <1>7 DEF IntakeInv, DiskTyped, StepsTyped
<1>16. /\ (HasManifest' <=> HasManifest) /\ (HasMcp' <=> HasMcp)
       /\ (ManifestIsGood' <=> ManifestIsGood) /\ (McpIsGood' <=> McpIsGood)
  BY <1>7, <1>11 DEF HasManifest, HasMcp, ManifestIsGood, McpIsGood
<1>17. ManifestAccounted'
  BY <1>2, <1>7, <1>11, <1>16 DEF IntakeInv, ManifestAccounted, GoesOn
<1>18. McpAccounted'
  BY <1>2, <1>7, <1>11, <1>16 DEF IntakeInv, McpAccounted, Loading
<1>19. PICK n \in Nat : DOMAIN plugin.skills = 1 .. n /\ n = Len(plugin.skills)
  BY <1>12
<1>20. /\ DOMAIN plugin'.skills = 1 .. n + 1 /\ plugin'.skills[n + 1] = s
       /\ \A i \in 1 .. n : plugin'.skills[i] = plugin.skills[i]
  BY <1>9, <1>10, <1>11, <1>12, <1>19
<1>21. \A i \in 1 .. n + 1 : i \in 1 .. n \/ i = n + 1
  OBVIOUS
<1>22. InBundles' = InBundles \cup {b}
  <2>1. \A c : c \in InBundles' <=> \E i \in 1 .. n + 1 : c = plugin'.skills[i].bundle
    BY <1>20 DEF InBundles
  <2>2. \A c : c \in InBundles <=> \E i \in 1 .. n : c = plugin.skills[i].bundle
    BY <1>19 DEF InBundles
  <2>3. \A c : c \in InBundles' <=> c \in InBundles \/ c = b
    BY <1>8, <1>20, <1>21, <2>1, <2>2
  <2> QED BY <2>3
<1>23. b \notin InBundles /\ b \notin plugin.failed
  BY <1>2 DEF IntakeInv, BundlesAccounted
<1>24. BundlesAccounted'
  <2>1. \A c \in todo' : c \notin InBundles' /\ c \notin plugin'.failed
    BY <1>7, <1>11, <1>22 DEF IntakeInv, BundlesAccounted
  <2>2. \A c \in Bundle \ (replaced \cup todo) :
            BundleAccounted(c, disk.bundle[c], InBundles, plugin.failed)
    BY <1>2 DEF IntakeInv, BundlesAccounted, GoesOn
  <2>3. ASSUME NEW c \in Bundle \ (replaced' \cup todo')
        PROVE  BundleAccounted(c, disk'.bundle[c], InBundles', plugin'.failed)
    <3>1. CASE c = b
      <4>1. LoadsSkill(disk.bundle[b].says, "untrusted")
        BY <1>5, <1>7, <2>3, <3>1 DEF LoadsHere
      <4> QED BY <1>7, <1>11, <1>22, <1>23, <3>1, <4>1 DEF BundleAccounted
    <3>2. CASE c # b
      <4>1. BundleAccounted(c, disk.bundle[c], InBundles, plugin.failed)
        BY <1>7, <2>2, <2>3, <3>2
      <4> QED BY <1>7, <1>11, <1>22, <3>2, <4>1 DEF BundleAccounted
    <3> QED BY <3>1, <3>2
  <2> QED BY <1>7, <2>1, <2>3 DEF BundlesAccounted
<1>25. SkillsAccounted'
  <2>1. \A i \in 1 .. n : plugin.skills[i].bundle # b
    BY <1>19, <1>23 DEF InBundles
  <2>2. \A i, j \in 1 .. n : plugin.skills[i].bundle = plugin.skills[j].bundle => i = j
    BY <1>19 DEF IntakeInv, SkillsAccounted
  <2>3. ASSUME NEW i \in 1 .. n + 1, NEW j \in 1 .. n + 1,
               plugin'.skills[i].bundle = plugin'.skills[j].bundle
        PROVE  i = j
    <3>1. plugin'.skills[n + 1].bundle = b
      BY <1>8, <1>20
    <3>2. \A k \in 1 .. n : plugin'.skills[k].bundle = plugin.skills[k].bundle
      BY <1>20
    <3>3. i = n + 1 <=> j = n + 1
      BY <1>21, <2>1, <2>3, <3>1, <3>2
    <3>4. CASE i \in 1 .. n /\ j \in 1 .. n
      BY <2>2, <2>3, <3>2, <3>4
    <3> QED BY <1>21, <3>3, <3>4
  <2>4. ASSUME NEW i \in 1 .. n + 1
        PROVE  \E d \in Documents :
                /\ LoadsHere(d)
                /\ plugin'.skills[i] = LoadedFrom(plugin'.skills[i].bundle, d,
                                                  plugin'.skills[i].stripped_scripts)
                /\ plugin'.skills[i].bundle \notin replaced' =>
                    /\ d = disk'.bundle[plugin'.skills[i].bundle].says
                    /\ plugin'.skills[i].stripped_scripts = d.scripts
    <3>1. PICK t : t = plugin'.skills[i]
      OBVIOUS
    <3>2. CASE i \in 1 .. n
      <4>1. t = plugin.skills[i] /\ i \in DOMAIN plugin.skills
        BY <1>19, <1>20, <3>1, <3>2
      <4>2. PICK d \in Documents :
                /\ LoadsHere(d) /\ t = LoadedFrom(t.bundle, d, t.stripped_scripts)
                /\ t.bundle \notin replaced =>
                    d = disk.bundle[t.bundle].says /\ t.stripped_scripts = d.scripts
        BY <4>1 DEF IntakeInv, SkillsAccounted
      <4>3. plugin'.skills[i] = LoadedFrom(plugin'.skills[i].bundle, d,
                                           plugin'.skills[i].stripped_scripts)
        BY <3>1, <4>2
      <4>4. plugin'.skills[i].bundle \notin replaced' =>
                /\ d = disk'.bundle[plugin'.skills[i].bundle].says
                /\ plugin'.skills[i].stripped_scripts = d.scripts
        BY <1>7, <3>1, <4>2
      <4> QED BY <4>2, <4>3, <4>4
    <3>3. CASE i = n + 1
      <4>1. plugin'.skills[i] = s
        BY <1>20, <3>3
      <4>2. s = LoadedFrom(s.bundle, doc, s.stripped_scripts)
        BY <1>6, <1>8
      <4>3. s.bundle \notin replaced' =>
                /\ doc = disk'.bundle[s.bundle].says
                /\ s.stripped_scripts = doc.scripts
        BY <1>4, <1>5, <1>7, <1>8
      <4>4. LoadsHere(doc)
        BY <1>5
      <4> QED BY <4>1, <4>2, <4>3, <4>4
    <3> QED BY <1>21, <3>2, <3>3
  <2> QED BY <1>20, <2>3, <2>4 DEF SkillsAccounted
<1>26. BaseAccounted'
  BY <1>7 DEF BaseAccounted
<1> QED BY <1>14, <1>15, <1>17, <1>18, <1>24, <1>25, <1>26 DEF IntakeInv

LEMMA IntakeNextInv ==
    ASSUME IntakeInv, [IntakeNext]_intakeVars
    PROVE  IntakeInv'
<1>1. CASE UNCHANGED intakeVars
  <2>1. /\ UNCHANGED <<disk, touched, replaced, plugin>>
        /\ step' = step /\ todo' = todo /\ base' = base
    BY <1>1 DEF intakeVars
  <2>2. /\ PluginTyped' /\ DiskTyped' /\ SkillsAccounted'
        /\ InBundles' = InBundles /\ (HasManifest' <=> HasManifest) /\ (HasMcp' <=> HasMcp)
        /\ (ManifestIsGood' <=> ManifestIsGood) /\ (McpIsGood' <=> McpIsGood)
    BY <2>1, ReadOnly
  <2>3. StepsTyped'
    BY <2>1 DEF IntakeInv, StepsTyped
  <2>4. ManifestAccounted' /\ McpAccounted'
    BY <2>1, <2>2 DEF IntakeInv, ManifestAccounted, McpAccounted, GoesOn, Loading
  <2>5. BundlesAccounted'
    BY <2>1, <2>2 DEF IntakeInv, BundlesAccounted, GoesOn
  <2>6. BaseAccounted'
    BY <2>1 DEF IntakeInv, BaseAccounted
  <2> QED BY <2>2, <2>3, <2>4, <2>5, <2>6 DEF IntakeInv
<1>2. ASSUME NEW file \in FileOf({}), Replace("manifest", file) \/ Replace("mcp", file)
      PROVE  IntakeInv'
  BY <1>2, ReplaceKeeps
<1>3. CASE LoadManifest \/ ListBundles \/ CheckBundle \/ LoadBundle \/ RecordScripts
           \/ AfterBundles \/ CheckMcp \/ LoadMcp
  BY <1>3, LoadManifestKeeps, ListBundlesKeeps, CheckBundleKeeps, LoadBundleKeeps,
     RecordScriptsKeeps, AfterBundlesKeeps, CheckMcpKeeps, LoadMcpKeeps
<1> QED BY <1>1, <1>2, <1>3, LoadKeeps, ReplaceBundleKeeps DEF IntakeNext

LEMMA IntakeReached == IntakeSpec => []IntakeInv
<1>1. IntakeInit => IntakeInv
  BY IntakeInitInv
<1>2. IntakeInv /\ [IntakeNext]_intakeVars => IntakeInv'
  BY IntakeNextInv
<1> QED BY <1>1, <1>2, PTL DEF IntakeSpec

\* However many bundles a plugin has, whatever they say, and whatever is replaced while it
\* is loaded, a load that returns has loaded each part that is good and that nobody touched,
\* has an error for each that is not, and every line of a document that was taken is an entry
\* of it (loader.py, load_plugin and load_bundle).
THEOREM LoadsAreAccounted == IntakeSpec => []LoadIsAccounted
BY IntakeReached, IntakeInvAccounts, PTL

-----------------------------------------------------------------------------
(* The meters: totals of samples and sums over agents. *)

LEMMA TotalIsSum ==
    ASSUME NEW s
    PROVE  Total(s) = SumFunctionOnSet(s, DOMAIN s)
BY DEF Total, FoldSeq, FoldFunction, FoldFunctionOnSet, SumFunctionOnSet, MapThenFoldSet

\* One sample more.
LEMMA TotalMore ==
    ASSUME NEW n \in Nat, NEW f, NEW g, DOMAIN f = 1 .. n, DOMAIN g = 1 .. n + 1,
           \A i \in 1 .. n : g[i] = f[i] /\ f[i] \in Int, g[n + 1] \in Int
    PROVE  Total(g) = Total(f) + g[n + 1] /\ Total(f) \in Int
<1>1. PICK T : T = 1 .. n
  OBVIOUS
<1>2. PICK y : y = n + 1
  OBVIOUS
<1>3. IsFiniteSet(T) /\ y \notin T /\ T \cup {y} = 1 .. n + 1
  <2>1. IsFiniteSet(1 .. n)
    BY FS_Interval
  <2> QED BY <1>1, <1>2, <2>1
<1>4. \A i \in T : g[i] = f[i] /\ f[i] \in Int /\ g[i] \in Int
  BY <1>1
<1>5. g[y] \in Int
  BY <1>2
<1>6. \A i \in T \cup {y} : g[i] \in Int
  BY <1>4, <1>5
<1>7. SumFunctionOnSet(g, T \cup {y}) = g[y] + SumFunctionOnSet(g, T)
  BY <1>3, <1>6, SumMore
<1>8. SumFunctionOnSet(g, T) = SumFunctionOnSet(f, T)
  BY <1>3, <1>4, SumSame
<1>9. SumFunctionOnSet(f, T) \in Int
  BY <1>3, <1>4, SumIsInt
<1>10. Total(f) = SumFunctionOnSet(f, T) /\ Total(g) = SumFunctionOnSet(g, T \cup {y})
  BY <1>1, <1>3, TotalIsSum
<1> QED BY <1>2, <1>5, <1>7, <1>8, <1>9, <1>10

LEMMA TotalOfNone ==
    ASSUME NEW f, DOMAIN f = {}
    PROVE  Total(f) = 0
BY TotalIsSum, SumOfNone

LEMMA TotalAppends ==
    ASSUME NEW s \in Seq(Nat), NEW e \in Nat
    PROVE  Total(Append(s, e)) = Total(s) + e /\ Total(s) \in Int
<1>1. PICK n \in Nat : n = Len(s) /\ DOMAIN s = 1 .. n
  OBVIOUS
<1>2. PICK g : g = Append(s, e)
  OBVIOUS
<1>3. DOMAIN g = 1 .. n + 1 /\ g[n + 1] = e /\ \A i \in 1 .. n : g[i] = s[i] /\ s[i] \in Int
  BY <1>1, <1>2
<1>4. Total(g) = Total(s) + g[n + 1] /\ Total(s) \in Int
  BY <1>1, <1>3, TotalMore
<1> QED BY <1>2, <1>3, <1>4

\* What the agents of a table have of x in all.
SumOver(agents, x) == MapThenSumSet(LAMBDA a : agents[a][x], DOMAIN agents)

LEMMA SumOverIsSum ==
    ASSUME NEW agents, NEW x, IsFiniteSet(DOMAIN agents),
           NEW f, \A a \in DOMAIN agents : f[a] = agents[a][x]
    PROVE  SumOver(agents, x) = SumFunctionOnSet(f, DOMAIN agents)
<1>0. PICK S : S = DOMAIN agents
  OBVIOUS
<1>1. IsFiniteSet(S) /\ \A a \in S : f[a] = agents[a][x]
  BY <1>0
<1> DEFINE IsG(g) == g = [s \in SUBSET S |-> IF s = {} THEN 0
                                             ELSE agents[Elt(s)][x] + g[s \ {Elt(s)}]]
<1>2. SumOver(agents, x) = (CHOOSE g : IsG(g))[S]
  BY <1>0 DEF SumOver, MapThenSumSet, MapThenFoldSet, Elt
<1>3. \A s \in SUBSET S : s # {} => f[Elt(s)] = agents[Elt(s)][x]
  BY <1>1, EltIn
<1>4. ASSUME NEW g
      PROVE  [s \in SUBSET S |-> IF s = {} THEN 0 ELSE f[Elt(s)] + g[s \ {Elt(s)}]]
                = [s \in SUBSET S |-> IF s = {} THEN 0 ELSE agents[Elt(s)][x] + g[s \ {Elt(s)}]]
  BY <1>3
<1>5. ASSUME NEW g PROVE IsSum(g, f, S) <=> IsG(g)
  BY <1>4 DEF IsSum
<1> HIDE DEF IsG
<1>6. IsG(SumOf(f, S))
  BY <1>1, <1>5, SumExists
<1>7. PICK h : h = CHOOSE g : IsG(g)
  OBVIOUS
<1>8. IsG(h)
  BY <1>6, <1>7
<1>9. IsSum(h, f, S)
  BY <1>5, <1>8
<1>10. h[S] = SumFunctionOnSet(f, S)
  BY <1>1, <1>9, SumIsAny
<1> QED BY <1>0, <1>2, <1>7, <1>10

LEMMA OverAgentsIs == \A x : OverAgents(x) = SumOver(by_agent, x)
BY DEF OverAgents, SumOver, MapThenSumSet, MapThenFoldSet

LEMMA OverAgentsWillBe == \A x : OverAgents(x)' = SumOver(by_agent', x)
BY DEF OverAgents, SumOver, MapThenSumSet, MapThenFoldSet

LEMMA SumOverNone ==
    ASSUME NEW agents, DOMAIN agents = {}, NEW x
    PROVE  SumOver(agents, x) = 0
<1>1. PICK f : f = [a \in {} |-> 0]
  OBVIOUS
<1>2. SumOver(agents, x) = SumFunctionOnSet(f, DOMAIN agents)
  BY SumOverIsSum, FS_EmptySet
<1> QED BY <1>2, SumOfNone

\* The table an agent's share was added to.
Given(agents, agent, share) ==
    [a \in DOMAIN agents \cup {agent} |->
        IF a # agent THEN agents[a]
        ELSE IF a \in DOMAIN agents THEN [x \in Share |-> agents[a][x] + share[x]] ELSE share]

\* An agent's share is what its sum gains, whether it is known or new.
LEMMA SumOverGiven ==
    ASSUME NEW agents, IsFiniteSet(DOMAIN agents),
           \A a \in DOMAIN agents : agents[a] \in [Share -> Nat],
           NEW agent, NEW share \in [Share -> Nat], NEW x \in Share
    PROVE  /\ SumOver(Given(agents, agent, share), x) = SumOver(agents, x) + share[x]
           /\ SumOver(agents, x) \in Int
<1>1. PICK S : S = DOMAIN agents
  OBVIOUS
<1>2. PICK f : f = [a \in S |-> agents[a][x]]
  OBVIOUS
<1>3. PICK new : new = Given(agents, agent, share)
  OBVIOUS
<1>4. PICK T : T = DOMAIN new
  OBVIOUS
<1>5. T = S \cup {agent} /\ IsFiniteSet(S) /\ IsFiniteSet(T)
  <2>1. T = S \cup {agent}
    BY <1>1, <1>3, <1>4 DEF Given
  <2> QED BY <1>1, <2>1, FS_AddElement
<1>6. PICK g : g = [a \in T |-> new[a][x]]
  OBVIOUS
<1>7. \A a \in S : f[a] = agents[a][x] /\ f[a] \in Int
  BY <1>1, <1>2
<1>8. \A a \in T : g[a] = new[a][x]
  BY <1>6
<1>9. PICK d \in Int : d = share[x]
  OBVIOUS
<1>10. \A a \in S \ {agent} : g[a] = f[a]
  <2> SUFFICES ASSUME NEW a \in S \ {agent} PROVE g[a] = f[a]
    OBVIOUS
  <2>1. new[a] = agents[a]
    BY <1>1, <1>3 DEF Given
  <2> QED BY <1>5, <1>7, <1>8, <2>1
<1>11. SumOver(agents, x) = SumFunctionOnSet(f, S) /\ SumFunctionOnSet(f, S) \in Int
  BY <1>1, <1>5, <1>7, SumOverIsSum, SumIsInt
<1>12. SumOver(new, x) = SumFunctionOnSet(g, T)
  BY <1>4, <1>5, <1>8, SumOverIsSum
<1>13. CASE agent \in S
  <2>1. T = S
    BY <1>5, <1>13
  <2>2. new[agent] = [z \in Share |-> agents[agent][z] + share[z]]
    BY <1>1, <1>3, <1>13 DEF Given
  <2>3. g[agent] = f[agent] + d
    BY <1>7, <1>8, <1>9, <1>13, <2>1, <2>2
  <2>4. SumFunctionOnSet(g, S) = SumFunctionOnSet(f, S) + d
    BY <1>5, <1>7, <1>10, <1>13, <2>3, SumGiven
  <2> QED BY <1>3, <1>9, <1>11, <1>12, <2>1, <2>4
<1>14. CASE agent \notin S
  <2>1. new[agent] = share
    BY <1>1, <1>3, <1>14 DEF Given
  <2>2. g[agent] = d
    BY <1>5, <1>8, <1>9, <2>1
  <2>3. \A a \in S : g[a] = f[a]
    BY <1>10, <1>14
  <2>4. SumFunctionOnSet(g, T) = SumFunctionOnSet(f, S) + d
    BY <1>5, <1>7, <1>14, <2>2, <2>3, SumGivenNew
  <2> QED BY <1>3, <1>9, <1>11, <1>12, <2>4
<1> QED BY <1>13, <1>14

-----------------------------------------------------------------------------
(* The meters: the order of a sample. *)

Below(samples, v) == {i \in DOMAIN samples : samples[i] < v}
AtMost(samples, v) == {i \in DOMAIN samples : samples[i] <= v}

\* The sample at a place of the order is there.
LEMMA SortedIs ==
    ASSUME NEW samples \in Seq(Nat), NEW k \in DOMAIN samples
    PROVE  /\ Sorted(samples)[k] \in ToSet(samples)
           /\ Cardinality(Below(samples, Sorted(samples)[k])) < k
           /\ Cardinality(AtMost(samples, Sorted(samples)[k])) >= k
<1>1. PICK n \in Nat : n = Len(samples) /\ DOMAIN samples = 1 .. n
  OBVIOUS
<1>2. IsFiniteSet(1 .. n) /\ Cardinality(1 .. n) = n /\ k \in 1 .. n
  <2>1. n >= 1 /\ k \in 1 .. n
    BY <1>1
  <2>2. IsFiniteSet(1 .. n) /\ Cardinality(1 .. n) = IF 1 > n THEN 0 ELSE n - 1 + 1
    BY FS_Interval
  <2> QED BY <2>1, <2>2
<1>3. PICK T : T = ToSet(samples)
  OBVIOUS
<1>4. /\ \A i \in 1 .. n : samples[i] \in T
      /\ \A v \in T : \E i \in 1 .. n : v = samples[i]
      /\ T \subseteq Nat
  BY <1>1, <1>3 DEF ToSet
<1>5. IsFiniteSet(T)
  <2>1. samples \in Surjection(1 .. n, T)
    BY <1>1, <1>4 DEF Surjection
  <2> QED BY <1>2, <2>1, FS_Surjection
<1>6. \A v \in Int : /\ IsFiniteSet(Below(samples, v)) /\ Cardinality(Below(samples, v)) \in Nat
                     /\ IsFiniteSet(AtMost(samples, v)) /\ Cardinality(AtMost(samples, v)) \in Nat
  <2> SUFFICES ASSUME NEW v \in Int
               PROVE  /\ IsFiniteSet(Below(samples, v)) /\ Cardinality(Below(samples, v)) \in Nat
                      /\ IsFiniteSet(AtMost(samples, v)) /\ Cardinality(AtMost(samples, v)) \in Nat
    OBVIOUS
  <2>1. Below(samples, v) \in SUBSET (1 .. n) /\ AtMost(samples, v) \in SUBSET (1 .. n)
    BY <1>1 DEF Below, AtMost
  <2>2. IsFiniteSet(Below(samples, v)) /\ IsFiniteSet(AtMost(samples, v))
    BY <1>2, <2>1, FS_Subset
  <2> QED BY <2>2, FS_CardinalityType
<1>7. PICK U : U = {v \in T : Cardinality(AtMost(samples, v)) >= k}
  OBVIOUS
<1>8. U # {}
  <2>1. T # {} /\ Numbers(T)
    BY <1>2, <1>4 DEF Numbers
  <2>2. PICK m \in T : \A v \in T : v <= m
    BY <1>5, <2>1, MaxIs
  <2>3. AtMost(samples, m) = 1 .. n
    BY <1>1, <1>4, <2>2 DEF AtMost
  <2>4. Cardinality(AtMost(samples, m)) >= k
    BY <1>2, <2>3
  <2> QED BY <1>7, <2>2, <2>4
<1>9. PICK v \in U : \A u \in U : v <= u
  <2>1. U \subseteq Nat /\ U # {}
    BY <1>4, <1>7, <1>8
  <2> QED BY <2>1, LeastIs
<1>10. v \in T /\ v \in Nat /\ Cardinality(AtMost(samples, v)) >= k
  BY <1>4, <1>7, <1>9
<1>11. Cardinality(Below(samples, v)) < k
  <2>1. PICK L : L = {u \in T : u < v}
    OBVIOUS
  <2>2. CASE L = {}
    <3>1. Below(samples, v) = {}
      BY <1>1, <1>4, <2>1, <2>2 DEF Below
    <3>2. Cardinality(Below(samples, v)) = 0
      BY <3>1, FS_EmptySet
    <3> QED BY <1>2, <3>2
  <2>3. CASE L # {}
    <3>1. L \in SUBSET T
      BY <2>1
    <3>2. IsFiniteSet(L) /\ Numbers(L)
      <4>1. L \subseteq Int
        BY <1>4, <3>1
      <4> QED BY <1>5, <3>1, <4>1, FS_Subset DEF Numbers
    <3>3. PICK m \in L : \A u \in L : u <= m
      BY <2>3, <3>2, MaxIs
    <3>4. m \in T /\ m \in Nat /\ m < v
      BY <1>4, <2>1, <3>3
    <3>5. m \notin U
      BY <1>9, <1>10, <3>4
    <3>6. Cardinality(AtMost(samples, m)) < k
      BY <1>2, <1>6, <1>7, <3>4, <3>5
    <3>7. \A i \in 1 .. n : samples[i] < v <=> samples[i] <= m
      <4> SUFFICES ASSUME NEW i \in 1 .. n PROVE samples[i] < v <=> samples[i] <= m
        OBVIOUS
      <4>1. samples[i] \in T /\ samples[i] \in Nat
        BY <1>4
      <4>2. samples[i] < v => samples[i] <= m
        BY <2>1, <3>3, <4>1
      <4> QED BY <1>10, <3>4, <4>1, <4>2
    <3>8. Below(samples, v) = AtMost(samples, m)
      BY <1>1, <3>7 DEF Below, AtMost
    <3> QED BY <3>6, <3>8
  <2> QED BY <2>2, <2>3
<1>12. PICK s : s = CHOOSE u \in T : /\ Cardinality({i \in DOMAIN samples : samples[i] < u}) < k
                                    /\ Cardinality({i \in DOMAIN samples : samples[i] <= u}) >= k
  OBVIOUS
<1>13. s \in T /\ Cardinality({i \in DOMAIN samples : samples[i] < s}) < k
       /\ Cardinality({i \in DOMAIN samples : samples[i] <= s}) >= k
  BY <1>10, <1>11, <1>12 DEF Below, AtMost
<1>14. Sorted(samples)[k] = s
  BY <1>3, <1>12 DEF Sorted
<1> QED BY <1>3, <1>13, <1>14 DEF Below, AtMost

\* It rises.
LEMMA SortedRises ==
    ASSUME NEW samples \in Seq(Nat), NEW k \in DOMAIN samples, NEW l \in DOMAIN samples, k <= l
    PROVE  Sorted(samples)[k] <= Sorted(samples)[l]
<1>1. PICK v, w : v = Sorted(samples)[k] /\ w = Sorted(samples)[l]
  OBVIOUS
<1>2. PICK n \in Nat : n = Len(samples) /\ DOMAIN samples = 1 .. n
  OBVIOUS
<1>3. \A i \in 1 .. n : samples[i] \in Nat
  BY <1>2
<1>4. v \in Nat /\ w \in Nat /\ Cardinality(Below(samples, v)) < k
      /\ Cardinality(AtMost(samples, w)) >= l
  <2>1. \A u \in ToSet(samples) : u \in Nat
    BY <1>2, <1>3 DEF ToSet
  <2> QED BY <1>1, <2>1, SortedIs
<1>5. SUFFICES ASSUME w < v PROVE FALSE
  BY <1>1, <1>4
<1>6. IsFiniteSet(1 .. n) /\ k \in Int /\ l \in Int
  BY <1>2, FS_Interval
<1>7. Below(samples, v) \in SUBSET (1 .. n) /\ AtMost(samples, w) \in SUBSET Below(samples, v)
  BY <1>2, <1>3, <1>4, <1>5 DEF Below, AtMost
<1>8. IsFiniteSet(Below(samples, v))
  BY <1>6, <1>7, FS_Subset
<1>9. Cardinality(AtMost(samples, w)) <= Cardinality(Below(samples, v))
  BY <1>7, <1>8, FS_Subset
<1>10. Cardinality(Below(samples, v)) \in Nat /\ Cardinality(AtMost(samples, w)) \in Nat
  BY <1>7, <1>8, FS_Subset, FS_CardinalityType
<1> QED BY <1>4, <1>6, <1>9, <1>10

LEMMA TimesRises ==
    ASSUME NEW d \in Nat, NEW c \in Nat, NEW e \in Nat, c <= e
    PROVE  d * c \in Nat /\ d * c <= d * e
<1>1. e = c + (e - c) /\ e - c \in Nat
  OBVIOUS
<1>2. d * c \in Nat /\ d * (e - c) \in Nat
  BY <1>1
<1>3. d * e = d * c + d * (e - c)
  BY <1>1
<1> QED BY <1>2, <1>3

\* Between two neighbours, so many hundredths of the way.
Between(a, b, hundredths) == 100 * a + (b - a) * hundredths

LEMMA BetweenIs ==
    ASSUME NEW a \in Nat, NEW b \in Nat, a <= b, NEW p \in 0 .. 99
    PROVE  /\ Between(a, b, p) \in Int
           /\ 100 * a <= Between(a, b, p) /\ Between(a, b, p) <= 100 * b
           /\ \A q \in 0 .. 99 : p <= q => Between(a, b, p) <= Between(a, b, q)
<1>1. PICK d \in Nat : d = b - a
  OBVIOUS
<1>2. \A q \in Nat : Between(a, b, q) = 100 * a + d * q
  BY <1>1 DEF Between
<1>3. d * p \in Nat /\ d * p <= d * 100
  BY TimesRises
<1>4. d * 100 = 100 * b - 100 * a
  BY <1>1
<1>5. ASSUME NEW q \in 0 .. 99, p <= q PROVE Between(a, b, p) <= Between(a, b, q)
  <2>1. d * p <= d * q /\ d * q \in Nat /\ d * p \in Nat
    BY <1>5, TimesRises
  <2> QED BY <1>2, <2>1
<1>6. Between(a, b, p) = 100 * a + d * p
  BY <1>2
<1> QED BY <1>3, <1>4, <1>5, <1>6

\* What lies at a rank of an order.
Low(r) == (r \div 100) + 1
High(r, n) == IF Low(r) < n THEN Low(r) + 1 ELSE n
AtRank(o, n, r) == Between(o[Low(r)], o[High(r, n)], r % 100)

LEMMA RankIs ==
    ASSUME NEW n \in Nat, n >= 1, NEW r \in 0 .. 100 * (n - 1)
    PROVE  /\ Low(r) \in 1 .. n /\ High(r, n) \in 1 .. n /\ Low(r) <= High(r, n)
           /\ r % 100 \in 0 .. 99 /\ r = 100 * (Low(r) - 1) + (r % 100)
<1>1. r \div 100 \in Nat /\ r % 100 \in 0 .. 99 /\ r = 100 * (r \div 100) + (r % 100)
  OBVIOUS
<1>2. r \div 100 <= n - 1
  BY <1>1
<1> QED BY <1>1, <1>2 DEF Low, High

InRising(o, n) == o \in [1 .. n -> Nat] /\ \A k, l \in 1 .. n : k <= l => o[k] <= o[l]

LEMMA AtRankIs ==
    ASSUME NEW n \in Nat, n >= 1, NEW o, InRising(o, n), NEW r \in 0 .. 100 * (n - 1)
    PROVE  /\ AtRank(o, n, r) \in Int
           /\ 100 * o[1] <= 100 * o[Low(r)] /\ 100 * o[Low(r)] <= AtRank(o, n, r)
           /\ AtRank(o, n, r) <= 100 * o[High(r, n)] /\ 100 * o[High(r, n)] <= 100 * o[n]
<1>1. PICK l, h : l = Low(r) /\ h = High(r, n)
  OBVIOUS
<1>2. l \in 1 .. n /\ h \in 1 .. n /\ l <= h /\ r % 100 \in 0 .. 99
  BY <1>1, RankIs
<1>3. /\ o[1] \in Nat /\ o[l] \in Nat /\ o[h] \in Nat /\ o[n] \in Nat
      /\ o[1] <= o[l] /\ o[l] <= o[h] /\ o[h] <= o[n]
  BY <1>2 DEF InRising
<1>4. PICK a, b, p : a = o[l] /\ b = o[h] /\ p = r % 100
  OBVIOUS
<1>5. /\ Between(a, b, p) \in Int /\ 100 * a <= Between(a, b, p) /\ Between(a, b, p) <= 100 * b
  BY <1>2, <1>3, <1>4, BetweenIs
<1>6. AtRank(o, n, r) = Between(a, b, p)
  BY <1>1, <1>4 DEF AtRank
<1> QED BY <1>1, <1>3, <1>4, <1>5, <1>6

LEMMA AtRankRises ==
    ASSUME NEW n \in Nat, n >= 1, NEW o, InRising(o, n),
           NEW r \in 0 .. 100 * (n - 1), NEW q \in 0 .. 100 * (n - 1), r <= q
    PROVE  AtRank(o, n, r) <= AtRank(o, n, q)
<1>1. PICK l, m : l = Low(r) /\ m = Low(q)
  OBVIOUS
<1>2. /\ l \in 1 .. n /\ r % 100 \in 0 .. 99 /\ r = 100 * (l - 1) + (r % 100)
      /\ m \in 1 .. n /\ q % 100 \in 0 .. 99 /\ q = 100 * (m - 1) + (q % 100)
  BY <1>1, RankIs
<1>3. l <= m
  BY <1>2
<1>4. CASE l = m
  <2>1. r % 100 <= q % 100
    BY <1>2, <1>4
  <2>2. PICK a, b : a = o[l] /\ b = o[High(r, n)]
    OBVIOUS
  <2>3. High(r, n) = High(q, n) /\ High(r, n) \in 1 .. n /\ l <= High(r, n)
    BY <1>1, <1>4, RankIs DEF High
  <2>4. a \in Nat /\ b \in Nat /\ a <= b
    BY <1>2, <2>2, <2>3 DEF InRising
  <2>5. Between(a, b, r % 100) <= Between(a, b, q % 100)
    BY <1>2, <2>1, <2>4, BetweenIs
  <2>6. AtRank(o, n, r) = Between(a, b, r % 100) /\ AtRank(o, n, q) = Between(a, b, q % 100)
    BY <1>1, <1>4, <2>2, <2>3 DEF AtRank
  <2> QED BY <2>5, <2>6
<1>5. CASE l < m
  <2>1. High(r, n) <= m /\ High(r, n) \in 1 .. n
    BY <1>1, <1>2, <1>5 DEF High
  <2>2. PICK x, y : x = AtRank(o, n, r) /\ y = AtRank(o, n, q)
    OBVIOUS
  <2>3. x <= 100 * o[High(r, n)] /\ 100 * o[m] <= y /\ x \in Int /\ y \in Int
    BY <1>1, <2>2, AtRankIs
  <2>4. o[High(r, n)] <= o[m] /\ o[High(r, n)] \in Nat /\ o[m] \in Nat
    BY <1>2, <2>1 DEF InRising
  <2>5. x <= y
    BY <2>3, <2>4
  <2> QED BY <2>2, <2>5
<1> QED BY <1>2, <1>3, <1>4, <1>5

Ranked99(samples, p) ==
    /\ 100 * Min(ToSet(samples)) <= p.p50 /\ p.p50 <= p.p90 /\ p.p90 <= p.p99
    /\ p.p99 <= 100 * Max(ToSet(samples))

\* The percentiles of a sample lie in it and rise.
LEMMA PercentilesAreIn ==
    ASSUME NEW samples \in Seq(Nat), samples # << >>
    PROVE  Ranked99(samples, Percentiles(samples))
<1>1. PICK n \in Nat : n = Len(samples) /\ DOMAIN samples = 1 .. n /\ n >= 1
  OBVIOUS
<1>2. PICK o : o = Sorted(samples)
  OBVIOUS
<1>3. \A i \in 1 .. n : samples[i] \in Nat
  BY <1>1
<1>4. PICK T : T = ToSet(samples)
  OBVIOUS
<1>5. T \subseteq Nat /\ T # {}
  BY <1>1, <1>3, <1>4 DEF ToSet
<1>6. IsFiniteSet(T) /\ Numbers(T)
  <2>1. IsFiniteSet(1 .. n)
    BY FS_Interval
  <2>2. samples \in Surjection(1 .. n, T)
    BY <1>1, <1>3, <1>4 DEF Surjection, ToSet
  <2>3. T \subseteq Int
    BY <1>5
  <2> QED BY <2>1, <2>2, <2>3, FS_Surjection DEF Numbers
<1>7. \A k \in 1 .. n : o[k] \in T
  BY <1>1, <1>2, <1>4, SortedIs
<1>8. \A k, l \in 1 .. n : k <= l => o[k] <= o[l]
  BY <1>1, <1>2, SortedRises
<1>9. InRising(o, n)
  <2> DEFINE Place(k) == CHOOSE v \in ToSet(samples) :
                        /\ Cardinality({i \in DOMAIN samples : samples[i] < v}) < k
                        /\ Cardinality({i \in DOMAIN samples : samples[i] <= v}) >= k
  <2>3. o = [k \in DOMAIN samples |-> Place(k)]
    BY <1>2 DEF Sorted
  <2> HIDE DEF Place
  <2>4. o = [k \in 1 .. n |-> Place(k)]
    BY <1>1, <2>3
  <2>1. DOMAIN o = 1 .. n /\ o = [k \in 1 .. n |-> o[k]]
    BY <2>4
  <2>2. o \in [1 .. n -> Nat]
    BY <1>5, <1>7, <2>1
  <2> QED BY <1>8, <2>2 DEF InRising
<1>10. PICK min, max : min = Min(T) /\ max = Max(T)
  OBVIOUS
<1>11. min \in Nat /\ max \in Nat /\ \A x \in T : min <= x /\ x <= max
  <2>1. Max(T) \in T /\ \A x \in T : x <= Max(T)
    BY <1>5, <1>6, MaxIs
  <2>2. Min(T) \in T /\ \A x \in T : Min(T) <= x
    BY <1>5, LeastIs DEF Min
  <2> QED BY <1>5, <1>10, <2>1, <2>2
<1>12. min <= o[1] /\ o[n] <= max /\ o[1] \in Nat /\ o[n] \in Nat
  <2>1. 1 \in 1 .. n /\ n \in 1 .. n
    BY <1>1
  <2>2. o[1] \in T /\ o[n] \in T
    BY <1>7, <2>1
  <2>3. o[1] \in Nat /\ o[n] \in Nat
    BY <1>5, <2>2
  <2> QED BY <1>11, <2>2, <2>3
<1>13. PICK a, b, c : a = 50 * (n - 1) /\ b = 90 * (n - 1) /\ c = 99 * (n - 1)
  OBVIOUS
<1>14. /\ a \in 0 .. 100 * (n - 1) /\ b \in 0 .. 100 * (n - 1) /\ c \in 0 .. 100 * (n - 1)
       /\ a <= b /\ b <= c
  BY <1>1, <1>13
<1>15. PICK x, y, z : x = AtRank(o, n, a) /\ y = AtRank(o, n, b) /\ z = AtRank(o, n, c)
  OBVIOUS
<1>16. x <= y /\ y <= z
  BY <1>1, <1>9, <1>14, <1>15, AtRankRises
<1>17. 100 * o[1] <= x /\ x \in Int
  <2>1. /\ 100 * o[1] <= 100 * o[Low(a)] /\ 100 * o[Low(a)] <= x /\ x \in Int
    BY <1>1, <1>9, <1>14, <1>15, AtRankIs
  <2>2. o[Low(a)] \in Nat
    BY <1>1, <1>9, <1>14, RankIs DEF InRising
  <2> QED BY <1>12, <2>1, <2>2
<1>18. z <= 100 * o[n] /\ z \in Int
  <2>1. /\ z <= 100 * o[High(c, n)] /\ 100 * o[High(c, n)] <= 100 * o[n] /\ z \in Int
    BY <1>1, <1>9, <1>14, <1>15, AtRankIs
  <2>2. o[High(c, n)] \in Nat
    BY <1>1, <1>9, <1>14, RankIs DEF InRising
  <2> QED BY <1>12, <2>1, <2>2
<1>19. \A percent \in Int : Pick(samples, percent) = AtRank(o, n, percent * (n - 1))
  BY <1>1, <1>2 DEF Pick, Rank, AtRank, Between, Low, High
<1>20. Percentiles(samples) = [p50 |-> x, p90 |-> y, p99 |-> z]
  BY <1>13, <1>15, <1>19 DEF Percentiles
<1>21. Percentiles(samples).p50 = x /\ Percentiles(samples).p90 = y /\ Percentiles(samples).p99 = z
  BY <1>20
<1>22. 100 * min <= x /\ z <= 100 * max
  BY <1>11, <1>12, <1>17, <1>18
<1> QED BY <1>4, <1>10, <1>16, <1>21, <1>22 DEF Ranked99

-----------------------------------------------------------------------------
(* The meters: every turn is in the totals once. *)

Bare == [framework_ms : Nat, model_ms : Nat, total_ms : Nat]
Clock == {"framework_ms", "model_ms", "total_ms"}

TotalOf(s, x) == Total([i \in DOMAIN s |-> s[i][x]])

CountersAddUp ==
    /\ \A c \in Counter : SumOver(by_agent, c) = counts[c]
    /\ SumOver(by_agent, "turns") + Len(bare) = Len(latency)

ClocksAddUp ==
    /\ SumOver(by_agent, "framework_ms") + TotalOf(bare, "framework_ms") = Total(framework)
    /\ SumOver(by_agent, "model_ms") + TotalOf(bare, "model_ms") = Total(model)
    /\ SumOver(by_agent, "total_ms") + TotalOf(bare, "total_ms") = Total(latency)

PhasesAddUp ==
    /\ phases["setup_ms"] + phases["finalize_ms"] = Total(framework)
    /\ phases["wait_ms"] + phases["stream_ms"] = Total(model)
    /\ Total(framework) + Total(model) + phases["unattributed_ms"] + unmeasured >= Total(latency)

MeteringInv ==
    /\ MeteringTypeOK
    /\ IsFiniteSet(DOMAIN by_agent) /\ bare \in Seq(Bare)
    /\ CountersAddUp /\ ClocksAddUp /\ PhasesAddUp

\* A timing's phases make up its shares, and what is left of its total is not attributed.
LEMMA TimingIs ==
    ASSUME NEW timing \in Timing
    PROVE  /\ timing.setup_ms \in Nat /\ timing.wait_ms \in Nat /\ timing.stream_ms \in Nat
           /\ timing.finalize_ms \in Nat /\ timing.total_ms \in Nat
           /\ FrameworkMs(timing) \in Nat /\ ModelMs(timing) \in Nat
           /\ FrameworkMs(timing) = timing.setup_ms + timing.finalize_ms
           /\ ModelMs(timing) = timing.wait_ms + timing.stream_ms
           /\ UnattributedMs(timing) \in Nat
           /\ UnattributedMs(timing) + FrameworkMs(timing) + ModelMs(timing) >= timing.total_ms
<1>1. /\ timing.setup_ms \in Nat /\ timing.wait_ms \in Nat /\ timing.stream_ms \in Nat
      /\ timing.finalize_ms \in Nat /\ timing.total_ms \in Nat
  BY MeteringAssumption
<1>2. FrameworkMs(timing) \in Nat /\ ModelMs(timing) \in Nat
  BY <1>1 DEF FrameworkMs, ModelMs
<1>3. PICK e \in Int : e = timing.total_ms - FrameworkMs(timing) - ModelMs(timing)
  BY <1>1, <1>2
<1>4. PICK T : T = {0, e}
  OBVIOUS
<1>5. IsFiniteSet(T)
  <2>1. IsFiniteSet({0}) /\ IsFiniteSet({e})
    BY FS_Singleton
  <2>2. T = {0} \cup {e}
    BY <1>4
  <2> QED BY <2>1, <2>2, FS_Union
<1>6. Numbers(T) /\ T # {}
  BY <1>4 DEF Numbers
<1>7. Max(T) \in T /\ \A x \in T : x <= Max(T)
  BY <1>5, <1>6, MaxIs
<1>8. PICK m : m = Max(T)
  OBVIOUS
<1>9. UnattributedMs(timing) = m
  BY <1>3, <1>4, <1>8 DEF UnattributedMs
<1>10. (m = 0 \/ m = e) /\ 0 <= m /\ e <= m
  BY <1>4, <1>7, <1>8
<1> QED BY <1>1, <1>2, <1>3, <1>9, <1>10 DEF FrameworkMs, ModelMs

LEMMA TotalOfAppends ==
    ASSUME NEW s \in Seq(Bare), NEW e \in Bare, NEW x \in Clock
    PROVE  TotalOf(Append(s, e), x) = TotalOf(s, x) + e[x] /\ TotalOf(s, x) \in Int
<1>1. PICK n \in Nat : n = Len(s) /\ DOMAIN s = 1 .. n
  OBVIOUS
<1>2. PICK t : t = Append(s, e)
  OBVIOUS
<1>3. DOMAIN t = 1 .. n + 1 /\ t[n + 1] = e /\ \A i \in 1 .. n : t[i] = s[i] /\ s[i] \in Bare
  BY <1>1, <1>2
<1>4. PICK f : f = [i \in 1 .. n |-> s[i][x]]
  OBVIOUS
<1>5. PICK g : g = [i \in 1 .. n + 1 |-> t[i][x]]
  OBVIOUS
<1>6. \A b \in Bare : b[x] \in Int
  BY DEF Bare, Clock
<1>7. \A i \in 1 .. n : f[i] \in Int /\ f[i] = s[i][x]
  BY <1>3, <1>4, <1>6
<1>8. \A i \in 1 .. n : i \in 1 .. n + 1 /\ g[i] = f[i]
  BY <1>3, <1>5, <1>7
<1>9. g[n + 1] = e[x] /\ g[n + 1] \in Int
  BY <1>3, <1>5, <1>6
<1>10. DOMAIN f = 1 .. n /\ DOMAIN g = 1 .. n + 1
  BY <1>4, <1>5
<1>11. Total(g) = Total(f) + g[n + 1] /\ Total(f) \in Int
  BY <1>7, <1>8, <1>9, <1>10, TotalMore
<1>12. TotalOf(s, x) = Total(f)
  BY <1>1, <1>4 DEF TotalOf
<1>13. TotalOf(t, x) = Total(g)
  BY <1>3, <1>5 DEF TotalOf
<1> QED BY <1>2, <1>9, <1>11, <1>12, <1>13

LEMMA MeteringInitInv == MeteringInit => MeteringInv
<1> SUFFICES ASSUME MeteringInit PROVE MeteringInv
  OBVIOUS
<1>1. /\ latency = << >> /\ framework = << >> /\ model = << >> /\ bare = << >> /\ unmeasured = 0
      /\ counts = [c \in Counter |-> 0] /\ phases = [p \in Phase |-> 0]
      /\ DOMAIN by_agent = {}
  BY DEF MeteringInit
<1>2. MeteringTypeOK
  BY <1>1 DEF MeteringTypeOK, Turns
<1>3. IsFiniteSet(DOMAIN by_agent) /\ bare \in Seq(Bare)
  BY <1>1, FS_EmptySet
<1>4. \A x : SumOver(by_agent, x) = 0
  BY <1>1, SumOverNone
<1>5. Total(<< >>) = 0
  BY TotalOfNone
<1>6. \A x : TotalOf(bare, x) = 0
  <2> SUFFICES ASSUME NEW x PROVE TotalOf(bare, x) = 0
    OBVIOUS
  <2>1. PICK f : f = [i \in DOMAIN bare |-> bare[i][x]]
    OBVIOUS
  <2>2. DOMAIN f = {}
    BY <1>1, <2>1
  <2>3. Total(f) = 0
    BY <2>2, TotalOfNone
  <2> QED BY <2>1, <2>3 DEF TotalOf
<1>7. CountersAddUp
  BY <1>1, <1>4 DEF CountersAddUp
<1>8. ClocksAddUp
  BY <1>1, <1>4, <1>5, <1>6 DEF ClocksAddUp
<1>9. PhasesAddUp
  BY <1>1, <1>5 DEF PhasesAddUp, Phase
<1> QED BY <1>2, <1>3, <1>7, <1>8, <1>9 DEF MeteringInv

\* What the samples and the phases gain by a turn.
LEMMA SamplesGain ==
    ASSUME MeteringInv, NEW timing \in Timing, NEW total \in Nat, Samples(timing, total)
    PROVE  /\ {latency', framework', model'} \subseteq Seq(Nat)
           /\ Len(latency') = Len(latency) + 1 /\ Len(latency) \in Nat
           /\ Len(framework') = Len(latency') /\ Len(model') = Len(latency')
           /\ Total(latency') = Total(latency) + total /\ Total(latency) \in Int
           /\ Total(framework') = Total(framework) + FrameworkMs(timing) /\ Total(framework) \in Int
           /\ Total(model') = Total(model) + ModelMs(timing) /\ Total(model) \in Int
           /\ phases \in [Phase -> Nat] /\ phases' \in [Phase -> Nat]
           /\ phases'["setup_ms"] = phases["setup_ms"] + timing.setup_ms
           /\ phases'["finalize_ms"] = phases["finalize_ms"] + timing.finalize_ms
           /\ phases'["wait_ms"] = phases["wait_ms"] + timing.wait_ms
           /\ phases'["stream_ms"] = phases["stream_ms"] + timing.stream_ms
           /\ phases'["unattributed_ms"] = phases["unattributed_ms"] + UnattributedMs(timing)
<1>1. /\ latency \in Seq(Nat) /\ framework \in Seq(Nat) /\ model \in Seq(Nat)
      /\ Len(framework) = Len(latency) /\ Len(model) = Len(latency) /\ phases \in [Phase -> Nat]
  BY DEF MeteringInv, MeteringTypeOK, Turns
<1>2. /\ latency' = Append(latency, total) /\ framework' = Append(framework, FrameworkMs(timing))
      /\ model' = Append(model, ModelMs(timing))
  BY DEF Samples
<1>3. FrameworkMs(timing) \in Nat /\ ModelMs(timing) \in Nat /\ UnattributedMs(timing) \in Nat
  BY TimingIs
<1>4. /\ latency' \in Seq(Nat) /\ framework' \in Seq(Nat) /\ model' \in Seq(Nat)
      /\ Len(latency') = Len(latency) + 1 /\ Len(latency) \in Nat
      /\ Len(framework') = Len(latency') /\ Len(model') = Len(latency')
  BY <1>1, <1>2, <1>3
<1>5. Total(latency') = Total(latency) + total /\ Total(latency) \in Int
  BY <1>1, <1>2, TotalAppends
<1>6. Total(framework') = Total(framework) + FrameworkMs(timing) /\ Total(framework) \in Int
  BY <1>1, <1>2, <1>3, TotalAppends
<1>7. Total(model') = Total(model) + ModelMs(timing) /\ Total(model) \in Int
  BY <1>1, <1>2, <1>3, TotalAppends
<1>8. \A p \in Phase : phases'[p] = phases[p]
                          + IF p = "unattributed_ms" THEN UnattributedMs(timing) ELSE timing[p]
  BY DEF Samples
<1>9. /\ phases'["setup_ms"] = phases["setup_ms"] + timing.setup_ms
      /\ phases'["finalize_ms"] = phases["finalize_ms"] + timing.finalize_ms
      /\ phases'["wait_ms"] = phases["wait_ms"] + timing.wait_ms
      /\ phases'["stream_ms"] = phases["stream_ms"] + timing.stream_ms
      /\ phases'["unattributed_ms"] = phases["unattributed_ms"] + UnattributedMs(timing)
  BY <1>8 DEF Phase
<1>10. \A p \in Phase : phases'[p] \in Nat
  <2>1. \A p \in Phase : phases[p] \in Nat
    BY <1>1
  <2>2. /\ phases["setup_ms"] \in Nat /\ phases["wait_ms"] \in Nat /\ phases["stream_ms"] \in Nat
        /\ phases["finalize_ms"] \in Nat /\ phases["unattributed_ms"] \in Nat
    BY <2>1 DEF Phase
  <2>3. /\ timing.setup_ms \in Nat /\ timing.wait_ms \in Nat /\ timing.stream_ms \in Nat
        /\ timing.finalize_ms \in Nat
    BY TimingIs
  <2>4. /\ phases'["setup_ms"] \in Nat /\ phases'["wait_ms"] \in Nat /\ phases'["stream_ms"] \in Nat
        /\ phases'["finalize_ms"] \in Nat /\ phases'["unattributed_ms"] \in Nat
    BY <1>3, <1>9, <2>2, <2>3
  <2> QED BY <2>4 DEF Phase
<1>11. phases' \in [Phase -> Nat]
  <2>1. phases' = [p \in Phase |-> phases'[p]]
    BY DEF Samples
  <2> QED BY <1>10, <2>1
<1> QED BY <1>1, <1>4, <1>5, <1>6, <1>7, <1>9, <1>11

LEMMA Slack ==
    ASSUME NEW f \in Int, NEW m \in Int, NEW n \in Int, NEW l \in Int, f + m + n >= l,
           NEW a \in Int, NEW b \in Int, NEW c \in Int, NEW d \in Int, a + b + c >= d
    PROVE  (f + a) + (m + b) + (n + c) >= l + d
OBVIOUS

LEMMA PhasesStillAddUp ==
    ASSUME MeteringInv, NEW timing \in Timing, NEW total \in Nat, Samples(timing, total),
           NEW gap \in Nat, unmeasured' = unmeasured + gap, total <= timing.total_ms + gap
    PROVE  PhasesAddUp'
<1>1. PICK fw, mo, u : fw = FrameworkMs(timing) /\ mo = ModelMs(timing) /\ u = UnattributedMs(timing)
  OBVIOUS
<1>2. /\ phases["setup_ms"] + phases["finalize_ms"] = Total(framework)
      /\ phases["wait_ms"] + phases["stream_ms"] = Total(model)
      /\ Total(framework) + Total(model) + phases["unattributed_ms"] + unmeasured >= Total(latency)
  BY DEF MeteringInv, PhasesAddUp
<1>3. /\ phases["setup_ms"] \in Nat /\ phases["finalize_ms"] \in Nat /\ phases["wait_ms"] \in Nat
      /\ phases["stream_ms"] \in Nat /\ phases["unattributed_ms"] \in Nat /\ unmeasured \in Nat
  BY DEF MeteringInv, MeteringTypeOK, Phase
<1>4. /\ Total(latency') = Total(latency) + total /\ Total(latency) \in Int
      /\ Total(framework') = Total(framework) + fw /\ Total(framework) \in Int
      /\ Total(model') = Total(model) + mo /\ Total(model) \in Int
      /\ phases'["setup_ms"] = phases["setup_ms"] + timing.setup_ms
      /\ phases'["finalize_ms"] = phases["finalize_ms"] + timing.finalize_ms
      /\ phases'["wait_ms"] = phases["wait_ms"] + timing.wait_ms
      /\ phases'["stream_ms"] = phases["stream_ms"] + timing.stream_ms
      /\ phases'["unattributed_ms"] = phases["unattributed_ms"] + u
  BY <1>1, SamplesGain
<1>5. /\ timing.setup_ms \in Nat /\ timing.wait_ms \in Nat /\ timing.stream_ms \in Nat
      /\ timing.finalize_ms \in Nat /\ fw = timing.setup_ms + timing.finalize_ms
      /\ mo = timing.wait_ms + timing.stream_ms /\ u \in Nat /\ u + fw + mo >= timing.total_ms
      /\ timing.total_ms \in Nat
  BY <1>1, TimingIs
<1>6. phases'["setup_ms"] + phases'["finalize_ms"] = Total(framework')
  BY <1>2, <1>3, <1>4, <1>5
<1>7. phases'["wait_ms"] + phases'["stream_ms"] = Total(model')
  BY <1>2, <1>3, <1>4, <1>5
<1>8. PICK tf, tm, tl, n : /\ tf = Total(framework) /\ tm = Total(model) /\ tl = Total(latency)
                          /\ n = phases["unattributed_ms"] + unmeasured
  OBVIOUS
<1>9. tf \in Int /\ tm \in Int /\ tl \in Int /\ n \in Int /\ tf + tm + n >= tl
  BY <1>2, <1>3, <1>4, <1>8
<1>10. fw \in Int /\ mo \in Int /\ fw + mo + (u + gap) >= total /\ u + gap \in Int
  BY <1>5
<1>11. (tf + fw) + (tm + mo) + (n + (u + gap)) >= tl + total
  BY <1>9, <1>10, Slack
<1>12. phases'["unattributed_ms"] + unmeasured' = n + (u + gap)
  BY <1>3, <1>4, <1>5, <1>8
<1>13. /\ Total(framework') = tf + fw /\ Total(model') = tm + mo /\ Total(latency') = tl + total
      /\ phases'["unattributed_ms"] \in Int /\ unmeasured' \in Int
  BY <1>3, <1>4, <1>5, <1>8
<1>14. PICK v, w : v = phases'["unattributed_ms"] /\ w = unmeasured'
  OBVIOUS
<1>15. (tf + fw) + (tm + mo) + v + w >= tl + total
  BY <1>9, <1>10, <1>11, <1>12, <1>13, <1>14
<1>16. Total(framework') + Total(model') + phases'["unattributed_ms"] + unmeasured' >= Total(latency')
  BY <1>13, <1>14, <1>15
<1> QED BY <1>6, <1>7, <1>16 DEF PhasesAddUp

LEMMA RecordTimingKeeps ==
    ASSUME MeteringInv, NEW timing \in Timing, RecordTiming(timing)
    PROVE  MeteringInv'
<1>1. PICK fw, mo : fw = FrameworkMs(timing) /\ mo = ModelMs(timing)
  OBVIOUS
<1>2. fw \in Nat /\ mo \in Nat /\ timing.total_ms \in Nat
  BY <1>1, TimingIs
<1>3. PICK e : e = [framework_ms |-> fw, model_ms |-> mo, total_ms |-> timing.total_ms]
  OBVIOUS
<1>4. e \in Bare /\ e["framework_ms"] = fw /\ e["model_ms"] = mo /\ e["total_ms"] = timing.total_ms
  BY <1>2, <1>3 DEF Bare
<1>5. /\ Samples(timing, timing.total_ms) /\ bare' = Append(bare, e)
      /\ counts' = counts /\ by_agent' = by_agent /\ unmeasured' = unmeasured
  BY <1>1, <1>3 DEF RecordTiming
<1>6. /\ counts \in [Counter -> Nat] /\ DOMAIN by_agent \subseteq Metered /\ unmeasured \in Nat
      /\ \A a \in DOMAIN by_agent : by_agent[a] \in [Share -> Nat]
      /\ IsFiniteSet(DOMAIN by_agent) /\ bare \in Seq(Bare)
  BY DEF MeteringInv, MeteringTypeOK
<1>7. MeteringTypeOK'
  <2>1. /\ {latency', framework', model'} \subseteq Seq(Nat)
        /\ Len(framework') = Len(latency') /\ Len(model') = Len(latency')
        /\ phases' \in [Phase -> Nat]
    BY <1>2, <1>5, SamplesGain
  <2> QED BY <1>5, <1>6, <2>1 DEF MeteringTypeOK, Turns
<1>8. IsFiniteSet(DOMAIN by_agent') /\ bare' \in Seq(Bare) /\ Len(bare') = Len(bare) + 1
      /\ Len(bare) \in Nat
  BY <1>4, <1>5, <1>6
<1>9. PICK sum : sum = [x \in Share |-> SumOver(by_agent, x)]
  OBVIOUS
<1>10. \A x \in Share : sum[x] = SumOver(by_agent, x) /\ sum[x] \in Int
  <2> SUFFICES ASSUME NEW x \in Share PROVE SumOver(by_agent, x) \in Int
    BY <1>9
  <2>1. PICK none : none = [y \in Share |-> 0]
    OBVIOUS
  <2>2. none \in [Share -> Nat]
    BY <2>1
  <2> QED BY <1>6, <2>2, SumOverGiven
<1>11. CountersAddUp'
  <2>1. /\ \A c \in Counter : SumOver(by_agent, c) = counts[c]
        /\ SumOver(by_agent, "turns") + Len(bare) = Len(latency)
    BY DEF MeteringInv, CountersAddUp
  <2>2. Len(latency') = Len(latency) + 1
    BY <1>2, <1>5, SamplesGain
  <2>3. SumOver(by_agent, "turns") \in Int
    BY <1>10 DEF Share
  <2>4. SumOver(by_agent, "turns") + Len(bare') = Len(latency')
    BY <1>8, <2>1, <2>2, <2>3
  <2> QED BY <1>5, <2>1, <2>4 DEF CountersAddUp
<1>12. ClocksAddUp'
  <2>1. /\ SumOver(by_agent, "framework_ms") + TotalOf(bare, "framework_ms") = Total(framework)
        /\ SumOver(by_agent, "model_ms") + TotalOf(bare, "model_ms") = Total(model)
        /\ SumOver(by_agent, "total_ms") + TotalOf(bare, "total_ms") = Total(latency)
    BY DEF MeteringInv, ClocksAddUp
  <2>2. /\ SumOver(by_agent, "framework_ms") \in Int /\ SumOver(by_agent, "model_ms") \in Int
        /\ SumOver(by_agent, "total_ms") \in Int
    BY <1>10 DEF Share
  <2>3. \A x \in Clock : TotalOf(bare', x) = TotalOf(bare, x) + e[x] /\ TotalOf(bare, x) \in Int
    BY <1>4, <1>5, <1>6, TotalOfAppends
  <2>4. /\ TotalOf(bare', "framework_ms") = TotalOf(bare, "framework_ms") + fw
        /\ TotalOf(bare', "model_ms") = TotalOf(bare, "model_ms") + mo
        /\ TotalOf(bare', "total_ms") = TotalOf(bare, "total_ms") + timing.total_ms
        /\ TotalOf(bare, "framework_ms") \in Int /\ TotalOf(bare, "model_ms") \in Int
        /\ TotalOf(bare, "total_ms") \in Int
    BY <1>4, <2>3 DEF Clock
  <2>5. /\ Total(latency') = Total(latency) + timing.total_ms
        /\ Total(framework') = Total(framework) + fw
        /\ Total(model') = Total(model) + mo
    BY <1>1, <1>2, <1>5, SamplesGain
  <2>6. /\ SumOver(by_agent, "framework_ms") + TotalOf(bare', "framework_ms") = Total(framework')
        /\ SumOver(by_agent, "model_ms") + TotalOf(bare', "model_ms") = Total(model')
        /\ SumOver(by_agent, "total_ms") + TotalOf(bare', "total_ms") = Total(latency')
    BY <1>2, <2>1, <2>2, <2>4, <2>5
  <2> QED BY <1>5, <2>6 DEF ClocksAddUp
<1>13. PhasesAddUp'
  <2>1. unmeasured' = unmeasured + 0 /\ timing.total_ms <= timing.total_ms + 0
    BY <1>2, <1>5, <1>6
  <2> QED BY <1>2, <1>5, <2>1, PhasesStillAddUp
<1> QED BY <1>7, <1>8, <1>11, <1>12, <1>13 DEF MeteringInv

\* What a turn adds to its agent.
LEMMA ShareIs ==
    ASSUME NEW used \in [Counter -> Nat], NEW timing \in Timing, NEW ms \in Nat,
           NEW share, share = ShareOf(used, timing, ms)
    PROVE  /\ share \in [Share -> Nat] /\ \A c \in Counter : share[c] = used[c]
           /\ share["turns"] = 1 /\ share["framework_ms"] = FrameworkMs(timing)
           /\ share["model_ms"] = ModelMs(timing) /\ share["total_ms"] = TotalMs(timing, ms)
           /\ TotalMs(timing, ms) \in Nat
<1>1. FrameworkMs(timing) \in Nat /\ ModelMs(timing) \in Nat /\ timing.total_ms \in Nat
  BY TimingIs
<1>2. TotalMs(timing, ms) \in Nat
  BY <1>1 DEF TotalMs
<1>3. \A c \in Counter : c \in Share /\ share[c] = used[c]
  <2> SUFFICES ASSUME NEW c \in Counter PROVE c \in Share /\ share[c] = used[c]
    OBVIOUS
  <2>1. c \in Share
    BY DEF Share
  <2>2. share[c] = CASE c \in Counter -> used[c]
                     [] c = "turns" -> 1
                     [] c = "framework_ms" -> FrameworkMs(timing)
                     [] c = "model_ms" -> ModelMs(timing)
                     [] c = "total_ms" -> TotalMs(timing, ms)
    BY <2>1 DEF ShareOf
  <2>3. c # "turns" /\ c # "framework_ms" /\ c # "model_ms" /\ c # "total_ms"
    BY DEF Counter
  <2> QED BY <2>1, <2>2, <2>3
<1>4. /\ "turns" \notin Counter /\ "framework_ms" \notin Counter /\ "model_ms" \notin Counter
      /\ "total_ms" \notin Counter
  BY DEF Counter
<1>5. \A x \in Share : share[x] = CASE x \in Counter -> used[x]
                                  [] x = "turns" -> 1
                                  [] x = "framework_ms" -> FrameworkMs(timing)
                                  [] x = "model_ms" -> ModelMs(timing)
                                  [] x = "total_ms" -> TotalMs(timing, ms)
  BY DEF ShareOf
<1>6. share["turns"] = 1 /\ share["framework_ms"] = FrameworkMs(timing)
      /\ share["model_ms"] = ModelMs(timing) /\ share["total_ms"] = TotalMs(timing, ms)
  BY <1>4, <1>5 DEF Share
<1>7. \A x \in Share : share[x] \in Nat
  <2>1. \A x \in Share : x \in Counter \/ x = "turns" \/ x = "framework_ms" \/ x = "model_ms"
                         \/ x = "total_ms"
    BY DEF Share
  <2> QED BY <1>1, <1>2, <1>3, <1>6, <2>1
<1>8. share = [x \in Share |-> share[x]]
  <2> DEFINE Of(x) == CASE x \in Counter -> used[x]
                        [] x = "turns" -> 1
                        [] x = "framework_ms" -> FrameworkMs(timing)
                        [] x = "model_ms" -> ModelMs(timing)
                        [] x = "total_ms" -> TotalMs(timing, ms)
  <2>1. share = [x \in Share |-> Of(x)]
    BY DEF ShareOf
  <2> HIDE DEF Of
  <2> QED BY <2>1
<1> QED BY <1>2, <1>3, <1>6, <1>7, <1>8

LEMMA RecordKeeps ==
    ASSUME MeteringInv, NEW agent \in Metered, NEW used \in Use, NEW timing \in Timing,
           NEW ms \in Latency, Record(agent, used, timing, ms)
    PROVE  MeteringInv'
<1>1. used \in [Counter -> Nat] /\ ms \in Nat
  <2>1. Tokens \subseteq Nat /\ Latency \subseteq Nat
    BY MeteringAssumption
  <2>2. PICK a \in Tokens, b \in Tokens : used = [c \in Counter |-> IF c = "cost_credits" THEN b ELSE a]
    BY DEF Use
  <2>3. a \in Nat /\ b \in Nat
    BY <2>1
  <2> QED BY <2>1, <2>2, <2>3
<1>2. PICK share : share = ShareOf(used, timing, ms)
  OBVIOUS
<1>3. /\ share \in [Share -> Nat] /\ \A c \in Counter : share[c] = used[c]
      /\ share["turns"] = 1 /\ share["framework_ms"] = FrameworkMs(timing)
      /\ share["model_ms"] = ModelMs(timing) /\ share["total_ms"] = TotalMs(timing, ms)
      /\ TotalMs(timing, ms) \in Nat
  BY <1>1, <1>2, ShareIs
<1>4. PICK total : total = TotalMs(timing, ms)
  OBVIOUS
<1>5. /\ Samples(timing, total) /\ bare' = bare /\ total \in Nat
      /\ by_agent' = Given(by_agent, agent, share)
      /\ counts' = [c \in Counter |-> counts[c] + used[c]]
      /\ unmeasured' = unmeasured + IF timing.total_ms = 0 THEN ms ELSE 0
  BY <1>2, <1>3, <1>4 DEF Record, Given
<1>6. /\ counts \in [Counter -> Nat] /\ DOMAIN by_agent \subseteq Metered /\ unmeasured \in Nat
      /\ \A a \in DOMAIN by_agent : by_agent[a] \in [Share -> Nat]
      /\ IsFiniteSet(DOMAIN by_agent) /\ bare \in Seq(Bare)
  BY DEF MeteringInv, MeteringTypeOK
<1>7. DOMAIN by_agent' = DOMAIN by_agent \cup {agent} /\ IsFiniteSet(DOMAIN by_agent')
  <2>1. DOMAIN by_agent' = DOMAIN by_agent \cup {agent}
    BY <1>5 DEF Given
  <2>2. IsFiniteSet(DOMAIN by_agent \cup {agent})
    BY <1>6, FS_AddElement
  <2> QED BY <2>1, <2>2
<1>8. \A a \in DOMAIN by_agent' : by_agent'[a] \in [Share -> Nat]
  <2> SUFFICES ASSUME NEW a \in DOMAIN by_agent' PROVE by_agent'[a] \in [Share -> Nat]
    OBVIOUS
  <2>1. CASE a # agent
    BY <1>5, <1>6, <1>7, <2>1 DEF Given
  <2>2. CASE a = agent /\ agent \notin DOMAIN by_agent
    BY <1>3, <1>5, <1>7, <2>2 DEF Given
  <2>3. CASE a = agent /\ agent \in DOMAIN by_agent
    <3>1. by_agent'[a] = [x \in Share |-> by_agent[a][x] + share[x]]
      BY <1>5, <1>7, <2>3 DEF Given
    <3>2. \A x \in Share : by_agent[a][x] + share[x] \in Nat
      BY <1>3, <1>6, <2>3
    <3> QED BY <3>1, <3>2
  <2> QED BY <2>1, <2>2, <2>3
<1>9. unmeasured' \in Nat
  BY <1>1, <1>5, <1>6
<1>10. MeteringTypeOK'
  <2>1. /\ {latency', framework', model'} \subseteq Seq(Nat)
        /\ Len(framework') = Len(latency') /\ Len(model') = Len(latency')
        /\ phases' \in [Phase -> Nat]
    BY <1>5, SamplesGain
  <2>2. counts' \in [Counter -> Nat]
    <3>1. \A c \in Counter : counts[c] + used[c] \in Nat
      BY <1>1, <1>6
    <3> QED BY <1>5, <3>1
  <2>3. DOMAIN by_agent' \subseteq Metered
    BY <1>6, <1>7
  <2> QED BY <1>8, <1>9, <2>1, <2>2, <2>3 DEF MeteringTypeOK, Turns
<1>11. \A x \in Share : /\ SumOver(by_agent', x) = SumOver(by_agent, x) + share[x]
                         /\ SumOver(by_agent, x) \in Int /\ share[x] \in Int
  <2> SUFFICES ASSUME NEW x \in Share
               PROVE  /\ SumOver(by_agent', x) = SumOver(by_agent, x) + share[x]
                      /\ SumOver(by_agent, x) \in Int /\ share[x] \in Int
    OBVIOUS
  <2>1. share[x] \in Int
    BY <1>3
  <2> QED BY <1>3, <1>5, <1>6, <2>1, SumOverGiven
<1>12. CountersAddUp'
  <2>1. /\ \A c \in Counter : SumOver(by_agent, c) = counts[c]
        /\ SumOver(by_agent, "turns") + Len(bare) = Len(latency)
    BY DEF MeteringInv, CountersAddUp
  <2>2. \A c \in Counter : SumOver(by_agent', c) = counts'[c]
    <3> SUFFICES ASSUME NEW c \in Counter PROVE SumOver(by_agent', c) = counts'[c]
      OBVIOUS
    <3>1. c \in Share
      BY DEF Share
    <3>2. SumOver(by_agent', c) = SumOver(by_agent, c) + share[c]
      BY <1>11, <3>1
    <3> QED BY <1>3, <1>5, <2>1, <3>2
  <2>3. Len(latency') = Len(latency) + 1 /\ Len(latency) \in Nat /\ Len(bare) \in Nat
    BY <1>5, <1>6, SamplesGain
  <2>4. SumOver(by_agent', "turns") = SumOver(by_agent, "turns") + 1 /\ SumOver(by_agent, "turns") \in Int
    BY <1>3, <1>11 DEF Share
  <2>5. SumOver(by_agent', "turns") + Len(bare') = Len(latency')
    BY <1>5, <2>1, <2>3, <2>4
  <2> QED BY <2>2, <2>5 DEF CountersAddUp
<1>13. ClocksAddUp'
  <2>1. /\ SumOver(by_agent, "framework_ms") + TotalOf(bare, "framework_ms") = Total(framework)
        /\ SumOver(by_agent, "model_ms") + TotalOf(bare, "model_ms") = Total(model)
        /\ SumOver(by_agent, "total_ms") + TotalOf(bare, "total_ms") = Total(latency)
    BY DEF MeteringInv, ClocksAddUp
  <2>2. /\ SumOver(by_agent', "framework_ms") = SumOver(by_agent, "framework_ms") + FrameworkMs(timing)
        /\ SumOver(by_agent', "model_ms") = SumOver(by_agent, "model_ms") + ModelMs(timing)
        /\ SumOver(by_agent', "total_ms") = SumOver(by_agent, "total_ms") + total
        /\ SumOver(by_agent, "framework_ms") \in Int /\ SumOver(by_agent, "model_ms") \in Int
        /\ SumOver(by_agent, "total_ms") \in Int
    BY <1>3, <1>4, <1>11 DEF Share
  <2>3. \A x \in Clock : TotalOf(bare, x) \in Int
    <3>1. PICK e : e = [framework_ms |-> 0, model_ms |-> 0, total_ms |-> 0]
      OBVIOUS
    <3>2. e \in Bare
      BY <3>1 DEF Bare
    <3> QED BY <1>6, <3>2, TotalOfAppends
  <2>4. /\ TotalOf(bare, "framework_ms") \in Int /\ TotalOf(bare, "model_ms") \in Int
        /\ TotalOf(bare, "total_ms") \in Int
    BY <2>3 DEF Clock
  <2>5. /\ Total(latency') = Total(latency) + total
        /\ Total(framework') = Total(framework) + FrameworkMs(timing)
        /\ Total(model') = Total(model) + ModelMs(timing)
    BY <1>5, SamplesGain
  <2>6. FrameworkMs(timing) \in Nat /\ ModelMs(timing) \in Nat
    BY TimingIs
  <2>7. /\ SumOver(by_agent', "framework_ms") + TotalOf(bare, "framework_ms") = Total(framework')
        /\ SumOver(by_agent', "model_ms") + TotalOf(bare, "model_ms") = Total(model')
        /\ SumOver(by_agent', "total_ms") + TotalOf(bare, "total_ms") = Total(latency')
    BY <1>5, <2>1, <2>2, <2>4, <2>5, <2>6
  <2> QED BY <1>5, <2>7 DEF ClocksAddUp
<1>14. PhasesAddUp'
  <2>1. PICK gap : gap = IF timing.total_ms = 0 THEN ms ELSE 0
    OBVIOUS
  <2>2. gap \in Nat /\ total <= timing.total_ms + gap
    BY <1>1, <1>4, <2>1, TimingIs DEF TotalMs
  <2>3. unmeasured' = unmeasured + gap
    BY <1>5, <2>1
  <2> QED BY <1>5, <2>2, <2>3, PhasesStillAddUp
<1>15. bare' \in Seq(Bare)
  BY <1>5, <1>6
<1> QED BY <1>7, <1>10, <1>12, <1>13, <1>14, <1>15 DEF MeteringInv

LEMMA MeteringNextInv == MeteringInv /\ [MeteringNext]_meteringVars => MeteringInv'
<1> SUFFICES ASSUME MeteringInv, [MeteringNext]_meteringVars PROVE MeteringInv'
  OBVIOUS
<1>1. ASSUME NEW a \in Metered, NEW used \in Use, NEW timing \in Timing, NEW l \in Latency,
             Record(a, used, timing, l)
      PROVE  MeteringInv'
  BY <1>1, RecordKeeps
<1>2. ASSUME NEW timing \in Timing, RecordTiming(timing) PROVE MeteringInv'
  BY <1>2, RecordTimingKeeps
<1>3. CASE UNCHANGED meteringVars
  BY <1>3 DEF meteringVars, MeteringInv, MeteringTypeOK, Turns, CountersAddUp, ClocksAddUp,
     PhasesAddUp, TotalOf
<1> QED BY <1>1, <1>2, <1>3 DEF MeteringNext

LEMMA MeteringReached == MeteringSpec => []MeteringInv
<1> USE MeteringInitInv, MeteringNextInv
<1> QED BY PTL DEF MeteringSpec

\* What the invariant says of the meters.
LEMMA MeteringInvAgrees == MeteringInv => MetersAgree
<1> SUFFICES ASSUME MeteringInv PROVE MetersAgree
  OBVIOUS
<1>1. \A x : OverAgents(x) = SumOver(by_agent, x)
  BY OverAgentsIs
<1>2. \A x : OverBare(x) = TotalOf(bare, x)
  BY DEF OverBare, TotalOf
<1>3. \A c \in Counter : OverAgents(c) = counts[c]
  BY <1>1 DEF MeteringInv, CountersAddUp
<1>4. OverAgents("turns") + Len(bare) = Turns
  BY <1>1 DEF MeteringInv, CountersAddUp, Turns
<1>5. /\ LedgerTotals["framework_ms"] = Total(framework) /\ LedgerTotals["model_ms"] = Total(model)
      /\ LedgerTotals["total_ms"] = Total(latency)
  BY DEF LedgerTotals
<1>6. /\ OverAgents("framework_ms") + OverBare("framework_ms") = LedgerTotals["framework_ms"]
      /\ OverAgents("model_ms") + OverBare("model_ms") = LedgerTotals["model_ms"]
      /\ OverAgents("total_ms") + OverBare("total_ms") = LedgerTotals["total_ms"]
  BY <1>1, <1>2, <1>5 DEF MeteringInv, ClocksAddUp
<1>7. \A x \in {"framework_ms", "model_ms", "total_ms"} :
        OverAgents(x) + OverBare(x) = LedgerTotals[x]
  BY <1>6
<1>8. /\ phases.setup_ms + phases.finalize_ms = LedgerTotals.framework_ms
      /\ phases.wait_ms + phases.stream_ms = LedgerTotals.model_ms
      /\ LedgerTotals.framework_ms + LedgerTotals.model_ms + phases.unattributed_ms + unmeasured
            >= LedgerTotals.total_ms
  BY <1>5 DEF MeteringInv, PhasesAddUp
<1>9. ASSUME NEW samples \in {latency, framework, model} \ {<< >>}
      PROVE  Ranked99(samples, Percentiles(samples))
  <2>1. samples \in Seq(Nat) /\ samples # << >>
    BY DEF MeteringInv, MeteringTypeOK
  <2> QED BY <2>1, PercentilesAreIn
<1> QED BY <1>3, <1>4, <1>7, <1>8, <1>9 DEF MetersAgree, Ranked99

\* No turn is counted twice or for nobody: what each agent is charged with and the timings
\* that came alone make up the totals, the phases make up the clock, and the percentiles of a
\* sample lie in it and rise (ledger.py, record, record_timing and _percentiles).
THEOREM MetersAddUp == MeteringSpec => []MetersAgree
BY MeteringReached, MeteringInvAgrees, PTL

-----------------------------------------------------------------------------
(* The house. *)

\* A step of the house is a step of the part that moves and leaves the others alone.
LEMMA HouseMovesOnePart ==
    ASSUME [HouseNext]_houseVars
    PROVE  /\ [AgentsNext]_agentsVars /\ [PartitionNext]_partitionVars /\ [McpNext]_mcpVars
           /\ [MemoryNext]_memoryVars /\ [MeteringNext]_meteringVars /\ [OAuthNext]_oauthVars
           /\ [CardsNext]_cardsVars /\ [IntakeNext]_intakeVars
<1>1. CASE UNCHANGED houseVars
  BY <1>1 DEF houseVars
<1>2. CASE HouseNext
  BY <1>2 DEF HouseNext
<1> QED BY <1>1, <1>2

\* The house is its parts: whatever it does, each part does what that part alone may do, so
\* that what is proved of a part holds of the house.
THEOREM HouseIsItsParts ==
    HouseSpec => /\ AgentsSpec /\ PartitionSpec /\ McpSpec /\ MemorySpec
                 /\ MeteringSpec /\ OAuthSpec /\ CardsSpec /\ IntakeSpec
<1>1. HouseInit => /\ AgentsInit /\ PartitionInit /\ McpInit /\ MemoryInit
                   /\ MeteringInit /\ OAuthInit /\ CardsInit /\ IntakeInit
  BY DEF HouseInit
<1>2. [HouseNext]_houseVars =>
        /\ [AgentsNext]_agentsVars /\ [PartitionNext]_partitionVars /\ [McpNext]_mcpVars
        /\ [MemoryNext]_memoryVars /\ [MeteringNext]_meteringVars /\ [OAuthNext]_oauthVars
        /\ [CardsNext]_cardsVars /\ [IntakeNext]_intakeVars
  BY HouseMovesOnePart
<1> QED
  BY <1>1, <1>2, PTL DEF HouseSpec, AgentsSpec, PartitionSpec, McpSpec, MemorySpec, MeteringSpec,
     OAuthSpec, CardsSpec, IntakeSpec

\* Every part holds what its variables are for, at every moment of the house (the type
\* invariant of the run of the house).
THEOREM HouseTypeCorrect == HouseSpec => []HouseTypeOK
<1>1. PartitionInv => PartitionTypeOK
  BY DEF PartitionInv
<1>2. MemoryInv => MemoryTypeOK
  BY DEF MemoryInv
<1>3. MeteringInv => MeteringTypeOK
  BY DEF MeteringInv
<1>4. PartitionSpec /\ MemorySpec /\ MeteringSpec /\ IntakeSpec =>
        [](PartitionTypeOK /\ MemoryTypeOK /\ MeteringTypeOK /\ IntakeTypeOK)
  BY <1>1, <1>2, <1>3, IntakeInvTypes, PartitionReached, MemoryReached, MeteringReached,
     IntakeReached, PTL
<1>5. AgentsSpec /\ McpSpec /\ OAuthSpec /\ CardsSpec =>
        [](AgentsTypeOK /\ McpTypeOK /\ OAuthTypeOK /\ CardsTypeOK)
  BY RegistryTypeCorrect, McpTypeCorrect, FlowsTypeCorrect, CardsTypeCorrect, PTL
<1>6. /\ AgentsTypeOK /\ McpTypeOK /\ OAuthTypeOK /\ CardsTypeOK
      /\ PartitionTypeOK /\ MemoryTypeOK /\ MeteringTypeOK /\ IntakeTypeOK
      => HouseTypeOK
  BY DEF HouseTypeOK
<1> QED BY <1>4, <1>5, <1>6, HouseIsItsParts, PTL

=============================================================================
