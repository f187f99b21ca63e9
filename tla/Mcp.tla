--------------------------------- MODULE Mcp ---------------------------------
(***************************************************************************)
(* mcp/client.py and mcp/server.py over a wire that loses answers and      *)
(* brings them in any order.  The server is ours, built for an agent, or   *)
(* somebody else's that says what it likes; behind one address it may be   *)
(* replaced at any time.  The client's host discovers, lists, calls, and   *)
(* may do so from several tasks at once.                                   *)
(***************************************************************************)
EXTENDS Guard, Integers

CONSTANTS
    ClientAllowlist,    \* fixed_allowlist of the client
    OurServers,         \* servers we may build: allowed_tools, offered_tools, invokers
    ForeignAnswers,     \* what another server may answer a discover with
    MaxRequests         \* bound: requests ever sent

Version == {"2026-07-28", "2025-03-26"}
RequestedProtocolVersion == "2026-07-28"
AdvertisedProtocolVersion == RequestedProtocolVersion

\* The answer to a discover as it arrives: a protocolVersion or none, capabilities
\* and tools that are an object and an array or not, and the names of its descriptors.
Missing == "missing"
Malformed == "malformed"
Advertisement == [version : Version \cup {Missing}, shape : BOOLEAN,
                  tools : SUBSET (Spelling \cup {Malformed})]
OurServer == [owner : {"us"}, allowed_tools : SUBSET Spelling,
              offered_tools : SUBSET Tool, invokers : SUBSET Tool]
Foreign == [owner |-> "others", allowed_tools |-> {}, offered_tools |-> {}, invokers |-> {}]

ASSUME McpAssumption ==
    /\ ClientAllowlist \subseteq Spelling
    /\ OurServers \subseteq OurServer
    /\ ForeignAnswers \subseteq Advertisement
    /\ MaxRequests \in Nat
    /\ Malformed \notin Spelling

VARIABLES
    server,     \* the server at the address
    discovery,  \* _discovery, with _negotiated_version
    wire,       \* requests that were sent and not yet answered or lost
    sent,       \* requests sent so far
    invoked,    \* history: the invokers that were called, for whom and by which server
    told,       \* history: what clients were told of their calls, and what had happened
    advertised  \* history: answers that were a whole advertisement

mcpVars == <<server, discovery, wire, sent, invoked, told, advertised>>

NoDiscovery == [version |-> Missing, tools |-> {}]

\* advertised_tools, narrowed when the server is built.
AdvertisedTools(s) == EffectiveTools(s.allowed_tools, s.offered_tools)

McpInit ==
    /\ server \in OurServers \cup {Foreign}
    /\ discovery = NoDiscovery
    /\ wire = {} /\ sent = 0
    /\ invoked = {} /\ told = {} /\ advertised = {}

-----------------------------------------------------------------------------
(* The server. *)

\* The process is replaced: by one for another agent, or one that is not ours.
Replaced(s) ==
    /\ s # server
    /\ server' = s
    /\ UNCHANGED <<discovery, wire, sent, invoked, told, advertised>>

Waiting == [waiting |-> TRUE]

\* Every result has a resultType; an error is a complete one.
Result(result_type, is_error, did) ==
    [result_type |-> result_type, is_error |-> is_error, did |-> did]
ErrorResult(did) == Result("complete", TRUE, did)

Discover(s) ==
    [version |-> AdvertisedProtocolVersion, shape |-> TRUE, tools |-> AdvertisedTools(s)]

\* An error result is no advertisement: it has no protocolVersion.
NoAdvertisement == [version |-> Missing, shape |-> TRUE, tools |-> {}]

\* _validate_meta: a stated version must be ours; a request need not state one.
MetaOK(request) == request.version \in {Missing, AdvertisedProtocolVersion}

\* Fault: whatever has an invoker can be called.
MayInvokeAny(s, name) == name \in s.invokers

\* The gate of _tools_call, and the lookup behind it.  The name is taken as written.
MayInvoke(s, name) == name \in AdvertisedTools(s) /\ name \in s.invokers

\* What an invoker that returned an object, returned something else, or raised the
\* signal for more input is answered with.
ResultOf(did) ==
    CASE did = "returned" -> Result("complete", FALSE, did)
      [] did = "misshapen" -> ErrorResult(did)
      [] did = "parked" -> Result("input_required", FALSE, did)

Answer(request, answer) == wire' = (wire \ {request}) \cup {[request EXCEPT !.answer = answer]}

\* server/discover
HandleDiscover(request) ==
    /\ request.answer = Waiting /\ request.method = "server/discover"
    /\ LET answer == IF MetaOK(request) THEN Discover(server) ELSE NoAdvertisement
       IN  /\ server # Foreign
           /\ Answer(request, answer)
           /\ advertised' = IF MetaOK(request) THEN advertised \cup {answer} ELSE advertised
    /\ UNCHANGED <<server, discovery, sent, invoked, told>>

\* tools/call, for our client or for somebody else's.  The call an invoker that raises
\* any other exception leaves unanswered is a request that is lost.
HandleCall(request, did) ==
    /\ request.answer = Waiting /\ request.method = "tools/call"
    /\ server # Foreign
    /\ IF MetaOK(request) /\ MayInvoke(server, request.name)
       THEN /\ Answer(request, ResultOf(did))
            /\ invoked' = invoked \cup
                 {[tool |-> request.name, by |-> request.by, allowed_tools |-> server.allowed_tools]}
       ELSE did = "returned" /\ Answer(request, ErrorResult("denied")) /\ UNCHANGED invoked
    /\ UNCHANGED <<server, discovery, sent, told, advertised>>

\* A server that is not ours answers as it pleases, also with a resultType of its own.
ForeignDiscover(request, answer) ==
    /\ request.answer = Waiting /\ request.method = "server/discover"
    /\ server = Foreign
    /\ Answer(request, answer)
    /\ advertised' = advertised \cup {answer}
    /\ UNCHANGED <<server, discovery, sent, invoked, told>>

ForeignCall(request, result_type) ==
    /\ request.answer = Waiting /\ request.method = "tools/call"
    /\ server = Foreign
    /\ Answer(request, Result(result_type, FALSE, result_type))
    /\ UNCHANGED <<server, discovery, sent, invoked, told, advertised>>

-----------------------------------------------------------------------------
(* The client and its host. *)

Send(method, name, by, version) ==
    /\ sent < MaxRequests
    /\ sent' = sent + 1
    /\ wire' = wire \cup {[id |-> sent', method |-> method, name |-> name, by |-> by,
                           version |-> version, answer |-> Waiting]}
    /\ UNCHANGED <<server, discovery, invoked, told, advertised>>

\* discover, up to its await.
AskDiscover == Send("server/discover", Blank, "client", RequestedProtocolVersion)

\* A descriptor maps to a tool unless it has no usable name.
MapTool(entry) == IF entry = Malformed THEN Blank ELSE Canonical[entry]

\* Fault: descriptors that cannot be mapped are skipped.
ParsesSkipping(answer) == answer.version = RequestedProtocolVersion /\ answer.shape

\* _parse_discovery returns: the version is the one asked for, and all is well formed.
Parses(answer) ==
    /\ answer.version = RequestedProtocolVersion
    /\ answer.shape
    /\ \A entry \in answer.tools : MapTool(entry) # Blank

\* Every tool that was discovered, with the taint of a foreign descriptor.
Parsed(answer) ==
    [version |-> answer.version,
     tools |-> {[name |-> MapTool(entry), taints |-> {TaintForKind("mcp_server")}]
                    : entry \in {e \in answer.tools : MapTool(e) # Blank}}]

\* discover, after its await: all of it is committed, or nothing.
Discovered(request) ==
    /\ request.answer # Waiting /\ request.method = "server/discover"
    /\ wire' = wire \ {request}
    /\ discovery' = IF Parses(request.answer) THEN Parsed(request.answer) ELSE discovery
    /\ UNCHANGED <<server, sent, invoked, told, advertised>>

\* list_tools; before a discover there is nothing to call.
ListTools(allowlist) ==
    {t \in discovery.tools :
        t.name \in EffectiveTools(allowlist, {d.name : d \in discovery.tools})}

\* The host calls a tool of the list it has now.
CallTool(name) ==
    /\ name \in {t.name : t \in ListTools(ClientAllowlist)}
    /\ Send("tools/call", name, "client", RequestedProtocolVersion)

\* Another client of the server writes any name, and any version or none.
StrangerCalls(name, version) ==
    /\ name \in Spelling
    /\ Send("tools/call", name, "stranger", version)

\* route_result: an unknown resultType raises.
RouteResult(result) ==
    CASE result.result_type = "complete" -> "MCPResult"
      [] result.result_type = "input_required" -> "InputRequired"
      [] OTHER -> "MCPProtocolError"

CallReturns(request) ==
    /\ request.answer # Waiting /\ request.method = "tools/call"
    /\ wire' = wire \ {request}
    /\ told' = IF request.by = "client"
               THEN told \cup {[as |-> RouteResult(request.answer),
                                error |-> request.answer.is_error, did |-> request.answer.did]}
               ELSE told
    /\ UNCHANGED <<server, discovery, sent, invoked, advertised>>

\* The transport raises, before or after the server saw the request.
Lost(request) ==
    /\ wire' = wire \ {request}
    /\ UNCHANGED <<server, discovery, sent, invoked, told, advertised>>

McpNext ==
    \/ \E s \in OurServers \cup {Foreign} : Replaced(s)
    \/ AskDiscover
    \/ \E name \in Tool : CallTool(name)
    \/ \E name \in Spelling, version \in Version \cup {Missing} : StrangerCalls(name, version)
    \/ \E request \in wire :
        \/ HandleDiscover(request)
        \/ \E did \in {"returned", "misshapen", "parked"} : HandleCall(request, did)
        \/ \E answer \in ForeignAnswers : ForeignDiscover(request, answer)
        \/ \E t \in {"complete", "input_required", "other"} : ForeignCall(request, t)
        \/ Discovered(request)
        \/ CallReturns(request)
        \/ Lost(request)

McpSpec == McpInit /\ [][McpNext]_mcpVars

-----------------------------------------------------------------------------
(* Properties. *)

ToolFound == [name : Tool, taints : {{"foreign_skill"}}]
Dids == {"returned", "misshapen", "parked", "denied", "complete", "input_required", "other"}
Outcome == [result_type : {"complete", "input_required", "other"}, is_error : BOOLEAN,
            did : Dids]
Request ==
    [id : 1 .. MaxRequests, method : {"server/discover", "tools/call"}, name : Spelling \cup {Blank},
     by : {"client", "stranger"}, version : Version \cup {Missing},
     answer : {Waiting} \cup Advertisement \cup Outcome]

McpTypeOK ==
    /\ server \in OurServer \cup {Foreign}
    /\ discovery \in [version : {RequestedProtocolVersion, Missing}, tools : SUBSET ToolFound]
    /\ wire \subseteq Request
    /\ sent \in 0 .. MaxRequests
    /\ invoked \subseteq [tool : Tool, by : {"client", "stranger"}, allowed_tools : SUBSET Spelling]
    /\ told \subseteq [as : {"MCPResult", "InputRequired", "MCPProtocolError"}, error : BOOLEAN,
                      did : Dids]
    /\ advertised \subseteq Advertisement

\* Two allowlists stand before a tool.  What the server invokes is within its own agent's
\* and never dangerous, whoever asked, by whichever spelling, and whichever server the
\* list was made for; what our client had invoked is within the client's too.
InvokedWithinBoth ==
    \A call \in invoked :
        /\ call.tool \in Names(call.allowed_tools) \ DangerousTools
        /\ call.by = "client" => call.tool \in Names(ClientAllowlist)

\* Whatever answers are lost, late or malformed, each is taken as the whole of what it was
\* or not at all: the client holds nothing, or one whole advertisement some server made in
\* the version that was asked for (client.py, discover: nothing is applied partially), and
\* a tool that asks for more input is told apart from one that returned and one that failed
\* on both sides of the wire (server.py, ServerResult; client.py, route_result).
AnswersTakenWhole ==
    /\ \/ discovery = NoDiscovery
       \/ \E answer \in advertised :
            /\ answer.version = RequestedProtocolVersion
            /\ discovery = Parsed(answer)
            /\ {t.name : t \in discovery.tools} = {MapTool(entry) : entry \in answer.tools}
    /\ \A call \in told :
        /\ call.as = "InputRequired" <=> call.did \in {"parked", "input_required"}
        /\ (call.as = "MCPResult" /\ ~call.error) <=> call.did \in {"returned", "complete"}
=============================================================================
