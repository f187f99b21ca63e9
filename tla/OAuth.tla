-------------------------------- MODULE OAuth --------------------------------
(***************************************************************************)
(* authz/oauth.py: a host gets tokens for several resources at once, each  *)
(* in a flow of its own.  Resource servers challenge it, authorization     *)
(* servers and the user's browser answer when and in which order they      *)
(* like, and a token that was obtained may be presented anywhere.  The     *)
(* module is pure functions; the host that holds their results is modelled *)
(* from their parameters, the other parties as external.                   *)
(***************************************************************************)
EXTENDS Integers, FiniteSets

CONSTANTS
    Flow,           \* flows of the host; also the verifier and the state each makes
    Resource,       \* resource identifiers
    Issuer,         \* authorization servers
    NoResource,     \* an empty or missing identifier
    DefaultAudience,\* what an issuer writes that was told of no resource
    NoAudience      \* a token without an aud claim, or with a malformed one

ASSUME OAuthAssumption ==
    NoResource \notin Resource /\ DefaultAudience \notin Resource /\ NoAudience \notin Resource

VARIABLES
    flow,       \* what the host knows of each flow, and how far it is
    issued,     \* codes issuers gave out and what they noted with them
    redirects,  \* codes on their way back to the host, each with a state
    held,       \* tokens the host holds
    accepted    \* history: the tokens resource servers accepted, and where

oauthVars == <<flow, issued, redirects, held, accepted>>

NoIssuer == {}

\* ProtectedResourceMetadata: the resource it names and who mints tokens for it.
Metadata == [resource : Resource \cup {NoResource}, authorization_servers : SUBSET Issuer]

\* build_pkce_pair: a fresh verifier, and a challenge nobody inverts.
Challenge(verifier) == [s256 |-> verifier]

OAuthInit ==
    /\ flow = [f \in Flow |-> [stage |-> "new", resource |-> NoResource,
                               authorization_servers |-> NoIssuer, mode |-> "none"]]
    /\ issued = {} /\ redirects = {} /\ held = {} /\ accepted = {}

At(f, stage) == flow[f].stage = stage
Moves(f, stage) == flow' = [flow EXCEPT ![f].stage = stage]

-----------------------------------------------------------------------------
(* The host. *)

\* discover_from_challenge: not a Bearer challenge, or no resource_metadata in it, raises.
Challenged(f, bearer, metadata_url) ==
    /\ At(f, "new")
    /\ Moves(f, IF bearer /\ metadata_url THEN "challenged" ELSE "failed")
    /\ UNCHANGED <<issued, redirects, held, accepted>>

\* parse_protected_resource_metadata
Parse(f, document) ==
    /\ At(f, "challenged")
    /\ IF document.resource # NoResource /\ document.authorization_servers # {}
       THEN flow' = [flow EXCEPT ![f] = [@ EXCEPT !.stage = "parsed", !.resource = document.resource,
                            !.authorization_servers = document.authorization_servers]]
       ELSE Moves(f, "failed")
    /\ UNCHANGED <<issued, redirects, held, accepted>>

\* preferred_client_registration: CIMD, or DCR, or nothing to go on with.
Registration(metadata_url, registration_endpoint) ==
    IF metadata_url THEN "cimd" ELSE IF registration_endpoint THEN "dcr" ELSE "none"

Register(f, metadata_url, registration_endpoint) ==
    /\ At(f, "parsed")
    /\ LET mode == Registration(metadata_url, registration_endpoint)
       IN  flow' = [flow EXCEPT ![f].mode = mode,
                                ![f].stage = IF mode = "none" THEN "failed" ELSE "registered"]
    /\ UNCHANGED <<issued, redirects, held, accepted>>

\* build_pkce_pair and build_authorization_request; S256 is the only method there is.
AuthorizationRequest(f) ==
    [code_challenge |-> Challenge(f), resource |-> flow[f].resource, state |-> f]

\* The user is sent to an issuer, which issues a code for the request it was sent.
Authorize(f, issuer) ==
    /\ At(f, "registered")
    /\ issuer \in flow[f].authorization_servers
    /\ LET request == AuthorizationRequest(f)
           code == [issuer |-> issuer, code_challenge |-> request.code_challenge,
                    resource |-> request.resource]
       IN  /\ issued' = issued \cup {code}
           /\ redirects' = redirects \cup {[code |-> code, state |-> request.state]}
    /\ Moves(f, "authorizing")
    /\ UNCHANGED <<held, accepted>>

\* build_token_request
TokenRequest(f, code) == [code |-> code, code_verifier |-> f, resource |-> flow[f].resource]

\* An issuer redeems a code for whoever has its verifier, and the resource it noted.
Redeems(request) ==
    /\ request.code \in issued
    /\ request.code_verifier \in Flow
    /\ Challenge(request.code_verifier) = request.code.code_challenge
    /\ request.resource = request.code.resource

\* It binds the token to that resource, or to more, or knows no resource indicators.
Audiences(request) ==
    {{request.resource}, {request.resource, DefaultAudience}, {DefaultAudience}, NoAudience}

\* A redirect comes back and the host redeems its code for one of the flows that wait;
\* telling them apart by the state is up to the host, and it may be wrong.
Exchange(f, redirect, audience) ==
    LET request == TokenRequest(f, redirect.code)
    IN  /\ At(f, "authorizing")
        /\ redirects' = redirects \ {redirect}
        /\ issued' = issued \ {redirect.code}
        /\ audience \in Audiences(request)
        /\ IF Redeems(request)
           THEN /\ held' = held \cup {[got_by |-> f, asked_by |-> redirect.state, aud |-> audience]}
                /\ Moves(f, "done")
           ELSE UNCHANGED held /\ Moves(f, "failed")
        /\ UNCHANGED accepted

\* The user closes the window, or the flow is given up and its code comes too late.
GiveUp(f) ==
    /\ flow[f].stage \notin {"done", "failed"}
    /\ Moves(f, "failed")
    /\ UNCHANGED <<issued, redirects, held, accepted>>

-----------------------------------------------------------------------------
(* The resource server. *)

\* Fault: a token that names no audience is taken for ours.
ValidateTokenAudienceLax(aud, resource) == IF aud = NoAudience THEN TRUE ELSE resource \in aud

\* validate_token_audience returns.
ValidateTokenAudience(aud, resource) == aud # NoAudience /\ resource \in aud

Present(token, resource) ==
    /\ token \in held
    /\ ValidateTokenAudience(token.aud, resource)
    /\ accepted' = accepted \cup {[token |-> token, at |-> resource]}
    /\ UNCHANGED <<flow, issued, redirects, held>>

OAuthNext ==
    \/ \E f \in Flow :
        \/ \E bearer, metadata_url \in BOOLEAN : Challenged(f, bearer, metadata_url)
        \/ \E document \in Metadata : Parse(f, document)
        \/ \E url, endpoint \in BOOLEAN : Register(f, url, endpoint)
        \/ \E issuer \in Issuer : Authorize(f, issuer)
        \/ GiveUp(f)
    \/ \E f \in Flow, redirect \in redirects :
        \E audience \in (SUBSET (Resource \cup {DefaultAudience})) \cup {NoAudience} :
            Exchange(f, redirect, audience)
    \/ \E token \in held, resource \in Resource : Present(token, resource)

OAuthSpec == OAuthInit /\ [][OAuthNext]_oauthVars

-----------------------------------------------------------------------------
(* Properties. *)

Stage == {"new", "challenged", "parsed", "registered", "authorizing", "done", "failed"}
Code == [issuer : Issuer, code_challenge : {Challenge(f) : f \in Flow}, resource : Resource]
Token == [got_by : Flow, asked_by : Flow, aud : (SUBSET (Resource \cup {DefaultAudience})) \cup {NoAudience}]

OAuthTypeOK ==
    /\ flow \in [Flow -> [stage : Stage, resource : Resource \cup {NoResource},
                          authorization_servers : SUBSET Issuer, mode : {"none", "cimd", "dcr"}]]
    /\ issued \subseteq Code
    /\ redirects \subseteq [code : Code, state : Flow]
    /\ held \subseteq Token
    /\ accepted \subseteq [token : Token, at : Resource]

\* A token works where its flow was going and nowhere else: what a resource accepted was
\* obtained by a flow that had named this resource, with the code that flow had asked for,
\* however many flows were under way and whichever code came back first (oauth.py: PKCE
\* and the RFC 8707 resource on both requests, and validate_token_audience).
TokenStaysWithItsFlow ==
    \A a \in accepted :
        LET f == a.token.got_by
        IN  /\ flow[f].stage = "done" /\ flow[f].resource = a.at
            /\ a.token.asked_by = f
=============================================================================
