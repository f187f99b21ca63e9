------------------------------- MODULE Canvas -------------------------------
(***************************************************************************)
(* The shared board: canvas/graph.py, its durable twin in                  *)
(* storage/sqlite.py, and the media tools of tools/media.py whose results  *)
(* land on it.  Several agents, one turn of each, read artifacts, write    *)
(* their own, revise, and generate media; the host gates and grants.       *)
(* Neither board awaits inside an operation; a media generator is awaited. *)
(***************************************************************************)
EXTENDS Integers, Sequences, FiniteSets

CONSTANTS
    Agent,          \* turns that share the board
    Foreign,        \* those of them that follow a foreign skill
    Studio,         \* those of them that have media tools
    Id,             \* artifact ids
    NoId,           \* the parent of a root
    MaxMade,        \* bound: payloads produced
    MaxCalls,       \* bound: media calls of one turn, under way or with a result
    MaxReads,       \* bound: artifacts that agents have read
    MaxDecisions    \* bound: ids that are gated, and ids granted

ASSUME AgentAssumption == Foreign \subseteq Agent /\ Studio \subseteq Agent
ASSUME NoIdAssumption == NoId \notin Id
ASSUME BoundAssumption == MaxMade \in Nat /\ MaxCalls \in Nat /\ MaxDecisions \in Nat

VARIABLES
    board,      \* the artifacts, by id
    gated,      \* ids that want an approval
    granted,    \* ids that have been given one
    reader,     \* per agent: the taints it carries
    seen,       \* history: the ids an agent has read
    media,      \* per agent: its MediaContext, calls under way, and the host's sink
    made        \* payloads produced so far

vars == <<board, gated, granted, reader, seen, media, made>>

-----------------------------------------------------------------------------

\* USER_UNVERIFIED behaves as FOREIGN_SKILL does here.
Taint == {"foreign_skill", "tool_output", "canvas_read"}
ToolOutput == {"tool_output"}
Payload == 1 .. MaxMade

\* from and approval are history: the ids whose payload went into the artifact,
\* and whether it was appended with requires_approval.
Artifact == [payload : Payload, parent : Id \cup {NoId}, lineage : SUBSET Taint,
             from : SUBSET Id, approval : BOOLEAN]

\* id is the MediaContext's artifact_id, NoId before the host made one.
Media == [id : Id \cup {NoId}, parent : Id \cup {NoId}, running : 0 .. MaxCalls,
          sink : SUBSET Artifact, produced : SUBSET Payload, ended : BOOLEAN]

NoMedia == [id |-> NoId, parent |-> NoId, running |-> 0, sink |-> {}, produced |-> {},
            ended |-> FALSE]

Init ==
    /\ board = [id \in {} |-> {}]
    /\ gated = {}
    /\ granted = {}
    /\ reader = [a \in Agent |-> IF a \in Foreign THEN {"foreign_skill"} ELSE {}]
    /\ seen = [a \in Agent |-> {}]
    /\ media = [a \in Agent |-> NoMedia]
    /\ made = 0

Stored == DOMAIN board

\* Bound.
MayDecide(ids) == Cardinality(ids) < MaxDecisions

\* Fault: one grant opens every gate.
IsGatedUntilAnyGrant(id) == id \in gated /\ granted = {}

IsGated(id) == id \in gated /\ id \notin granted

\* Fault: the id is not looked up before it is written.
NeverRefused(id) == FALSE

\* DuplicateArtifactError, or the PRIMARY KEY of the artifacts table.
Refused(id) == id \in Stored

Added(id, artifact) ==
    [i \in Stored \cup {id} |-> IF i = id THEN artifact ELSE board[i]]

\* Fault: the reader is marked, and what the artifact was tainted by is dropped.
MarkedReader(lineage, artifact) == lineage \cup {"canvas_read"}

TaintForReader(lineage, artifact) == lineage \cup artifact.lineage \cup {"canvas_read"}

-----------------------------------------------------------------------------
(* Walks of the graph, over any parents, cycles and dangling ones included. *)

Walk[visited \in SUBSET Id] == [current \in Id \cup {NoId} |->
    IF current \in visited \/ current \notin Stored THEN << >>
    ELSE << current >> \o Walk[visited \cup {current}][board[current].parent]]

\* Fault: the walk does not start from a visited node.
AncestorsUnmarked(id) == IF id \in Stored THEN Walk[{}][board[id].parent] ELSE << >>

\* Nearest first.
Ancestors(id) == IF id \in Stored THEN Walk[{id}][board[id].parent] ELSE << >>

Children(id) == {kid \in Stored : board[kid].parent = id /\ kid # id}

\* The breadth-first search, level by level.
Descendants(id) ==
    LET Search[visited \in SUBSET Id] ==
            LET next == visited \cup UNION {Children(i) : i \in visited}
            IN  IF next = visited THEN visited ELSE Search[next]
    IN  Search[{id}] \ {id}

\* Root first, the node itself last.
LineageOf(id) ==
    LET anc == Ancestors(id)
        n == Len(anc)
    IN  IF id \notin Stored THEN << >>
        ELSE [i \in 1 .. n + 1 |-> IF i = n + 1 THEN id ELSE anc[n + 1 - i]]

-----------------------------------------------------------------------------
(* Agents on the board. *)

\* The host's id scheme keeps the id of a media context for its result.
Free(id) == \A a \in Agent : media[a].id # id

Produce ==
    /\ made < MaxMade
    /\ made' = made + 1

\* append by an agent that writes what it carries into the lineage.  It names a
\* parent it has read, or none, or an id that is not there: its own, or one that
\* may come later and close a cycle.
AppendArtifact(a, id, parent, approval) ==
    LET artifact == [payload |-> made + 1, parent |-> parent, lineage |-> reader[a],
                     from |-> seen[a], approval |-> approval]
    IN  /\ ~ media[a].ended
        /\ parent \in Stored => parent \in seen[a]
        /\ approval => MayDecide(gated)
        /\ Free(id)
        /\ ~ Refused(id)
        /\ Produce
        /\ board' = Added(id, artifact)
        /\ gated' = IF approval THEN gated \cup {id} ELSE gated
        /\ UNCHANGED <<granted, reader, seen, media>>

\* Fault: a revision starts with a clean lineage.
RevisionLineageClean(a, parent, override) == IF override THEN reader[a] ELSE {}

\* Unless a lineage is passed, the parent's.
RevisionLineage(a, parent, override) == IF override THEN reader[a] ELSE board[parent].lineage

\* The new node is not gated, whatever its parent is.  An agent that passes a
\* lineage passes its own, and has read what it revises.
Revise(a, parent, id, override) ==
    LET artifact == [payload |-> made + 1, parent |-> parent,
                     lineage |-> RevisionLineage(a, parent, override),
                     from |-> IF override THEN seen[a] ELSE {parent}, approval |-> FALSE]
    IN  /\ ~ media[a].ended
        /\ parent \in Stored
        /\ override => parent \in seen[a]
        /\ Free(id)
        /\ ~ Refused(id)
        /\ Produce
        /\ board' = Added(id, artifact)
        /\ UNCHANGED <<gated, granted, reader, seen, media>>

\* Bound.
MayRead(a, id) ==
    id \in seen[a] \/ Cardinality({x \in Agent \X Id : x[2] \in seen[x[1]]}) < MaxReads

\* The caller adopts the lineage that read returns.
Read(a, id) ==
    /\ ~ media[a].ended
    /\ MayRead(a, id)
    /\ ~ IsGated(id)
    /\ id \in Stored
    /\ reader' = [reader EXCEPT ![a] = TaintForReader(@, board[id])]
    /\ seen' = [seen EXCEPT ![a] = @ \cup {id}]
    /\ UNCHANGED <<board, gated, granted, media, made>>

RequireApproval(id) ==
    /\ MayDecide(gated)
    /\ gated' = gated \cup {id}
    /\ UNCHANGED <<board, granted, reader, seen, media, made>>

GrantApproval(id) ==
    /\ MayDecide(granted)
    /\ granted' = granted \cup {id}
    /\ UNCHANGED <<board, gated, reader, seen, media, made>>

-----------------------------------------------------------------------------
(* Media tools.  A call the guard denies, and one that fails, hand the host *)
(* an invocation without an artifact.                                       *)

\* as_tool_registry: one context serves every call of the turn.
Bind(a, id, parent) ==
    /\ a \in Studio
    /\ media[a] = NoMedia
    /\ Free(id)
    /\ ~ Refused(id)
    /\ parent \in seen[a] \cup {NoId}
    /\ media' = [media EXCEPT ![a].id = id, ![a].parent = parent]
    /\ UNCHANGED <<board, gated, granted, reader, seen, made>>

\* invoke, up to the await of the generator.
Invoke(a) ==
    /\ media[a].id # NoId
    /\ ~ media[a].ended
    /\ media[a].running + Cardinality(media[a].produced) < MaxCalls
    /\ media' = [media EXCEPT ![a].running = @ + 1]
    /\ UNCHANGED <<board, gated, granted, reader, seen, made>>

\* The generator raised, or returned something else.
Failed(a) ==
    /\ media[a].running > 0
    /\ media' = [media EXCEPT ![a].running = @ - 1]
    /\ UNCHANGED <<board, gated, granted, reader, seen, made>>

\* Fault: the taint is one that no gate knows.
BuildArtifactMislabelled(a) ==
    [payload |-> made + 1, parent |-> media[a].parent, lineage |-> {"media"},
     from |-> {media[a].parent} \ {NoId}, approval |-> FALSE]

\* The lineage of what a tool made is the tool's, whatever the parent's is.
BuildArtifact(a) ==
    [payload |-> made + 1, parent |-> media[a].parent, lineage |-> ToolOutput,
     from |-> {media[a].parent} \ {NoId}, approval |-> FALSE]

\* The artifact goes to the sink; the model is told its id.
Succeeded(a) ==
    /\ media[a].running > 0
    /\ Produce
    /\ media' = [media EXCEPT ![a].running = @ - 1, ![a].sink = @ \cup {BuildArtifact(a)},
                              ![a].produced = @ \cup {made + 1}]
    /\ UNCHANGED <<board, gated, granted, reader, seen>>

\* A turn with media tools is over when none of its calls is under way.
EndTurn(a) ==
    /\ media[a].id # NoId
    /\ ~ media[a].ended
    /\ media[a].running = 0
    /\ media' = [media EXCEPT ![a].ended = TRUE]
    /\ UNCHANGED <<board, gated, granted, reader, seen, made>>

\* The host stores what the sink collected, one append at a time.
Store(a, artifact) ==
    /\ media[a].ended
    /\ artifact \in media[a].sink
    /\ board' = IF Refused(media[a].id) THEN board ELSE Added(media[a].id, artifact)
    /\ media' = [media EXCEPT ![a].sink = @ \ {artifact}]
    /\ UNCHANGED <<gated, granted, reader, seen, made>>

\* append_many: the batch rolls back when any id in it is taken or repeated.
StoreMany(a) ==
    /\ media[a].ended
    /\ media[a].sink # {}
    /\ LET refused == Refused(media[a].id) \/ \E x, y \in media[a].sink : x # y
       IN  IF refused THEN board' = board
           ELSE \E artifact \in media[a].sink : board' = Added(media[a].id, artifact)
    /\ media' = [media EXCEPT ![a].sink = {}]
    /\ UNCHANGED <<gated, granted, reader, seen, made>>

-----------------------------------------------------------------------------

Work(a) ==
    \/ \E id \in Id, parent \in Id \cup {NoId} :
         \/ \E approval \in BOOLEAN : AppendArtifact(a, id, parent, approval)
         \/ \E override \in BOOLEAN : Revise(a, parent, id, override)
         \/ Bind(a, id, parent)
    \/ \E id \in Id : Read(a, id)
    \/ Invoke(a)
    \/ Failed(a)
    \/ Succeeded(a)
    \/ EndTurn(a)
    \/ \E artifact \in media[a].sink : Store(a, artifact)
    \/ StoreMany(a)

Next ==
    \/ \E a \in Agent : Work(a)
    \/ \E id \in Id : RequireApproval(id) \/ GrantApproval(id)

Spec == Init /\ [][Next]_vars

-----------------------------------------------------------------------------
(* Properties. *)

\* What waits in a sink is a result of the turn and has an id to go to.
MediaOK(m) ==
    /\ {x.payload : x \in m.sink} \subseteq m.produced
    /\ m.id = NoId => m = NoMedia

\* Type invariant; what waits in a sink has a known taint, an id to go to, and is
\* a result of the turn.
TypeOK ==
    /\ Stored \subseteq Id
    /\ \A id \in Stored : board[id] \in Artifact
    /\ gated \subseteq Id
    /\ granted \subseteq Id
    /\ reader \in [Agent -> SUBSET Taint]
    /\ seen \in [Agent -> SUBSET Id]
    /\ media \in [Agent -> Media]
    /\ \A a \in Agent : MediaOK(media[a])
    /\ made \in 0 .. MaxMade

\* "No operation ever mutates an existing artifact": not an append of a taken
\* id, a revision, or a second result of one media context.
AppendOnly ==
    [][\A id \in Stored : id \in Stored' /\ board'[id] = board[id]]_board

\* Taint on read: an agent carries the taints of all it has read, and what it
\* or a revision made of that keeps them, however many agents it went through.
\* What a media tool made has its own taint in their place.
TaintTravels ==
    /\ \A a \in Agent : \A id \in seen[a] :
          id \in Stored /\ board[id].lineage \cup {"canvas_read"} \subseteq reader[a]
    /\ \A id \in Stored : \A source \in board[id].from :
          /\ source \in Stored
          /\ board[id].lineage = ToolOutput \/ board[source].lineage \subseteq board[id].lineage

\* Gates fail closed: while an artifact that was appended for approval has not
\* been granted, no agent has read it, and nothing on the board was made from
\* it but revisions of it.
ApprovalHolds ==
    \A id \in Stored : board[id].approval /\ id \notin granted =>
        /\ \A a \in Agent : id \notin seen[a]
        /\ \A other \in Stored : id \in board[other].from => board[other].parent = id

\* The two walks agree on every graph, malformed ones included, and the chain
\* to a node is a path without repetition that ends in it.
TraversalsAgree ==
    /\ \A x, y \in Stored :
          (\E i \in DOMAIN Ancestors(x) : Ancestors(x)[i] = y) <=> x \in Descendants(y)
    /\ \A x \in Stored : LET chain == LineageOf(x) IN
          /\ chain[Len(chain)] = x
          /\ \A i, j \in DOMAIN chain : chain[i] = chain[j] => i = j
          /\ \A i \in 1 .. Len(chain) - 1 : board[chain[i + 1]].parent = chain[i]

\* "Dropping an artifact from context is lossless because the id restores it":
\* when the host has stored a turn's media, the id the model was told with each
\* result leads to that result.
IdRestores ==
    \A a \in Agent : media[a].ended /\ media[a].sink = {} =>
        \A p \in media[a].produced :
            media[a].id \in Stored /\ board[media[a].id].payload = p
=============================================================================
