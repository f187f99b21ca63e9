-------------------------------- MODULE Cards --------------------------------
(***************************************************************************)
(* a2a/cards.py: agents publish signed cards, which peers fetch, verify    *)
(* and narrow.  Between the two a document may be replaced by an older     *)
(* one, damaged, or put together from parts of others; keys come to be     *)
(* known and are withdrawn.                                                *)
(***************************************************************************)
EXTENDS Guard, Naturals

CONSTANTS
    SigningKey,     \* ids of keys
    CardName,       \* names of agents
    CardTools,      \* what their allowed_tools may be
    PeerAllowlist,  \* fixed_allowlist of the consumer's agent
    NoName,         \* a blank name
    MaxSigned       \* bound: different payloads ever signed

ASSUME CardAssumption ==
    /\ CardTools \subseteq SUBSET Spelling
    /\ NotDeclared \notin CardTools
    /\ NoName \notin CardName
    /\ PeerAllowlist \subseteq Spelling
    /\ MaxSigned \in Nat

VARIABLES
    document,   \* what is served at WELL_KNOWN_CARD_PATH
    known_keys, \* keys the consumer's verifier selects from
    peers,      \* the PeerAgent consume_card returned last, with the tools of it on offer
    signed      \* history: what was signed, with which key

cardsVars == <<document, known_keys, peers, signed>>

\* What a card says, and a JSON object that is no card's payload.
Payload == [name : CardName \cup {NoName}, capabilities : CardTools]

\* A string that verifies as the signature of one payload by one key.
Signature == [over : Payload, by : SigningKey]

\* A document that _parse_document and the envelope checks get through, and all others.
Document == [shape : {"card"}, payload : Payload, signature : Signature, key_id : SigningKey]
Unreadable == [shape |-> "malformed"]

CardsInit ==
    /\ document = Unreadable
    /\ known_keys \in SUBSET SigningKey
    /\ peers = {} /\ signed = {}

-----------------------------------------------------------------------------
\* emit_card: what the agent is allowed, as it stands, is what the card says.
CardOf(name, allowed_tools) == [name |-> name, capabilities |-> allowed_tools]

Emit(name, allowed_tools, key) ==
    LET payload == CardOf(name, allowed_tools)
        signature == [over |-> payload, by |-> key]
    IN  /\ signature \in signed \/ Cardinality(signed) < MaxSigned
        /\ signed' = signed \cup {signature}
        /\ document' = [shape |-> "card", payload |-> payload, signature |-> signature,
                        key_id |-> key]
        /\ UNCHANGED <<known_keys, peers>>

\* What is fetched is not what was emitted: it is cut short, or its parts are of cards of
\* different times, or it says what nobody signed.
Garbled == document' = Unreadable /\ UNCHANGED <<known_keys, peers, signed>>

Mixed(payload, signature, key_id) ==
    /\ document' = [shape |-> "card", payload |-> payload, signature |-> signature,
                    key_id |-> key_id]
    /\ UNCHANGED <<known_keys, peers, signed>>

KeyRotates(keys) == known_keys' = keys /\ keys # known_keys /\ UNCHANGED <<document, peers, signed>>

\* Fault: the capabilities are left out of the bytes that are verified.
VerifiesName(doc) ==
    /\ doc.key_id \in known_keys /\ doc.signature.by = doc.key_id
    /\ doc.signature.over.name = doc.payload.name

\* The verifier, which is handed the canonical bytes of the payload that was fetched.
Verifies(doc) ==
    /\ doc.key_id \in known_keys
    /\ doc.signature = [over |-> doc.payload, by |-> doc.key_id]

\* consume_card returns: what nobody can read, nobody signed or has no name is rejected.
Accepts(doc) == doc.shape = "card" /\ Verifies(doc) /\ doc.payload.name # NoName

PeerAgent(doc) ==
    [name |-> doc.payload.name, advertised_tools |-> doc.payload.capabilities,
     key_id |-> doc.key_id, taints |-> {"user_unverified"}]

\* peer_effective_tools
PeerEffectiveTools(peer) == EffectiveTools(PeerAllowlist, peer.advertised_tools)

\* A peer is taken in, with the tools of it our agent is offered.
Consume ==
    /\ Accepts(document)
    /\ LET peer == PeerAgent(document)
       IN  peers' = {[peer |-> peer, offered |-> PeerEffectiveTools(peer)]}
    /\ UNCHANGED <<document, known_keys, signed>>

CardsNext ==
    \/ \E name \in CardName, allowed_tools \in CardTools, key \in SigningKey :
        Emit(name, allowed_tools, key)
    \/ Garbled
    \/ \E payload \in Payload, signature \in signed, key_id \in SigningKey :
        Mixed(payload, signature, key_id)
    \/ \E keys \in SUBSET SigningKey : KeyRotates(keys)
    \/ Consume

CardsSpec == CardsInit /\ [][CardsNext]_cardsVars

-----------------------------------------------------------------------------
(* Properties. *)

Peer == [name : CardName, advertised_tools : CardTools, key_id : SigningKey,
         taints : {{"user_unverified"}}]

CardsTypeOK ==
    /\ document \in Document \cup {Unreadable}
    /\ known_keys \subseteq SigningKey
    /\ peers \subseteq [peer : Peer, offered : SUBSET Tool]
    /\ signed \subseteq Signature

\* A card was verified whole or not at all: each peer says exactly what the holder of its
\* key signed, also when the document was put together from parts of several cards, and
\* our agent is offered no more of it than its own allowlist has (cards.py, consume_card
\* and peer_effective_tools).
PeersAreAuthentic ==
    \A p \in peers :
        /\ [over |-> CardOf(p.peer.name, p.peer.advertised_tools), by |-> p.peer.key_id] \in signed
        /\ p.offered \subseteq Names(PeerAllowlist) \cap Names(p.peer.advertised_tools)
        /\ p.offered \cap DangerousTools = {}
=============================================================================
