---------------------------- MODULE CanvasProofs ----------------------------
(***************************************************************************)
(* Theorems about Canvas, for any agents, ids, gates and number of calls.  *)
(* Every step leaves the board as it is or lands one artifact on an id     *)
(* that was free; what the invariant says of the board is then a matter of *)
(* what that artifact was made from.  The walks are recursive functions:   *)
(* that they exist, and what they meet, is proved by smallest              *)
(* counterexamples, over the artifacts that are left to visit.             *)
(***************************************************************************)
EXTENDS Canvas, SumProofs, FiniteSetTheorems, TLAPS

\* The step puts this artifact under this id, which was free.
Lands(id, artifact) == id \notin Stored /\ board' = Added(id, artifact)

\* What was appended for approval has a gate.
Gates == \A id \in Stored : board[id].approval => id \in gated

\* What waits for the host is a tool's, made from nothing the agent has not read.
Sinks ==
    \A a \in Agent :
        /\ media[a].parent \in seen[a] \cup {NoId}
        /\ \A x \in media[a].sink : /\ x.lineage = ToolOutput
                                    /\ x.from \subseteq seen[a]
                                    /\ ~ x.approval

\* The inductive invariant.
Inv == TypeOK /\ TaintTravels /\ ApprovalHolds /\ Gates /\ Sinks

-----------------------------------------------------------------------------
(* The board only grows. *)

LEMMA LandsOne ==
    ASSUME NEW id, NEW artifact, Lands(id, artifact)
    PROVE  /\ Stored' = Stored \cup {id}
           /\ board'[id] = artifact
           /\ \A i \in Stored : board'[i] = board[i]
BY DEF Lands, Added, Stored

\* Every step leaves the board alone or lands an artifact.
LEMMA BoardSteps ==
    ASSUME [Next]_vars
    PROVE  board' = board \/ \E id, artifact : Lands(id, artifact)
<1>1. CASE UNCHANGED vars
  BY <1>1 DEF vars
<1>2. ASSUME NEW a \in Agent, Work(a)
      PROVE  board' = board \/ \E id, artifact : Lands(id, artifact)
  <2>1. CASE \E id \in Id, parent \in Id \cup {NoId} :
               \/ \E approval \in BOOLEAN : AppendArtifact(a, id, parent, approval)
               \/ \E override \in BOOLEAN : Revise(a, parent, id, override)
               \/ Bind(a, id, parent)
    BY <2>1 DEF AppendArtifact, Revise, Bind, Lands, Refused
  <2>2. CASE \E artifact \in media[a].sink : Store(a, artifact)
    BY <2>2 DEF Store, Lands, Refused
  <2>3. CASE StoreMany(a)
    BY <2>3 DEF StoreMany, Lands, Refused
  <2>4. CASE \/ \E id \in Id : Read(a, id)
             \/ Invoke(a) \/ Failed(a) \/ Succeeded(a) \/ EndTurn(a)
    BY <2>4 DEF Read, Invoke, Failed, Succeeded, EndTurn
  <2> QED
    BY <1>2, <2>1, <2>2, <2>3, <2>4 DEF Work
<1>3. ASSUME NEW id \in Id, RequireApproval(id) \/ GrantApproval(id)
      PROVE  board' = board
  BY <1>3 DEF RequireApproval, GrantApproval
<1> QED
  BY <1>1, <1>2, <1>3 DEF Next

\* "No operation ever mutates an existing artifact", for any board.
THEOREM BoardAppendOnly == Spec => AppendOnly
<1>1. ASSUME [Next]_vars
      PROVE  [\A id \in Stored : id \in Stored' /\ board'[id] = board[id]]_board
  BY <1>1, BoardSteps, LandsOne DEF Stored
<1> QED
  BY <1>1, PTL DEF Spec, AppendOnly

-----------------------------------------------------------------------------
(* Type correctness. *)

LEMMA TypeInit == Init => TypeOK
BY AgentAssumption, NoIdAssumption, BoundAssumption
   DEF Init, TypeOK, Stored, Media, MediaOK, NoMedia, Taint, Payload

\* A board with one artifact more is a board.
LEMMA LandsTypes ==
    ASSUME TypeOK, NEW id \in Id, NEW artifact \in Artifact, board' = Added(id, artifact)
    PROVE  Stored' \subseteq Id /\ \A i \in Stored' : board'[i] \in Artifact
BY DEF TypeOK, Added, Stored

\* The next payload, when there is one.
LEMMA NextPayload ==
    ASSUME TypeOK, Produce
    PROVE  made + 1 \in Payload /\ made' \in 0 .. MaxMade
BY BoundAssumption DEF TypeOK, Produce, Payload

\* The number of a turn's results is a number.
LEMMA ProducedCount ==
    ASSUME TypeOK, NEW a \in Agent
    PROVE  Cardinality(media[a].produced) \in Nat
<1>1. IsFiniteSet(Payload)
  BY BoundAssumption, FS_Interval DEF Payload
<1>2. media[a].produced \in SUBSET Payload
  BY DEF TypeOK, Media
<1> QED
  BY <1>1, <1>2, FS_Subset, FS_CardinalityType

\* One agent's media record changes, to a record that is well formed.
LEMMA MediaTypes ==
    ASSUME TypeOK, NEW a \in Agent, NEW m \in Media, media' = [media EXCEPT ![a] = m],
           MediaOK(m)
    PROVE  /\ media' \in [Agent -> Media]
           /\ \A b \in Agent : MediaOK(media'[b])
BY DEF TypeOK

LEMMA TypeWork ==
    ASSUME TypeOK, NEW a \in Agent, Work(a)
    PROVE  TypeOK'
<1>0. /\ media[a] \in Media /\ MediaOK(media[a])
      /\ reader[a] \in SUBSET Taint /\ seen[a] \in SUBSET Id
  BY DEF TypeOK
<1>1. ASSUME NEW id \in Id, NEW parent \in Id \cup {NoId}, NEW approval \in BOOLEAN,
             AppendArtifact(a, id, parent, approval)
      PROVE  TypeOK'
  <2>1. made + 1 \in Payload /\ made' \in 0 .. MaxMade
    BY <1>1, NextPayload DEF AppendArtifact
  <2>2. PICK x \in Artifact : board' = Added(id, x)
    BY <1>0, <1>1, <2>1 DEF AppendArtifact, Artifact
  <2>3. gated' \subseteq Id
    BY <1>1 DEF AppendArtifact, TypeOK
  <2> QED
    BY <1>1, <2>1, <2>2, <2>3, LandsTypes DEF AppendArtifact, TypeOK
<1>2. ASSUME NEW id \in Id, NEW parent \in Id \cup {NoId}, NEW override \in BOOLEAN,
             Revise(a, parent, id, override)
      PROVE  TypeOK'
  <2>1. made + 1 \in Payload /\ made' \in 0 .. MaxMade
    BY <1>2, NextPayload DEF Revise
  <2>2. /\ parent \in Id /\ board[parent].lineage \in SUBSET Taint
        /\ RevisionLineage(a, parent, override) \in SUBSET Taint
    BY <1>0, <1>2 DEF Revise, TypeOK, Artifact, RevisionLineage
  <2>3. (IF override THEN seen[a] ELSE {parent}) \in SUBSET Id
    BY <1>0, <2>2
  <2>4. PICK x \in Artifact : board' = Added(id, x)
    BY <1>2, <2>1, <2>2, <2>3 DEF Revise, Artifact
  <2> QED
    BY <1>2, <2>1, <2>4, LandsTypes DEF Revise, TypeOK
<1>3. ASSUME NEW id \in Id, NEW parent \in Id \cup {NoId}, Bind(a, id, parent)
      PROVE  TypeOK'
  <2>1. PICK m \in Media : m = [media[a] EXCEPT !.id = id, !.parent = parent]
    BY <1>0 DEF Media
  <2>2. MediaOK(m)
    BY <1>0, <2>1, NoIdAssumption DEF Media, MediaOK
  <2>3. media' = [media EXCEPT ![a] = m]
    BY <1>3, <2>1 DEF Bind
  <2> QED
    BY <1>0, <1>3, <2>2, <2>3, MediaTypes DEF Bind, TypeOK, Stored
<1>4. ASSUME NEW id \in Id, Read(a, id)
      PROVE  TypeOK'
  <2>1. TaintForReader(reader[a], board[id]) \in SUBSET Taint
    BY <1>0, <1>4 DEF Read, TypeOK, TaintForReader, Artifact, Taint
  <2> QED
    BY <1>0, <1>4, <2>1 DEF Read, TypeOK, Stored
<1>5. ASSUME NEW n \in 0 .. MaxCalls, media[a].id # NoId, media' = [media EXCEPT ![a].running = n],
             UNCHANGED <<board, gated, granted, reader, seen, made>>
      PROVE  TypeOK'
  <2>1. PICK m \in Media : m = [media[a] EXCEPT !.running = n]
    BY <1>0 DEF Media
  <2>2. MediaOK(m)
    BY <1>0, <1>5, <2>1 DEF Media, MediaOK
  <2>3. media' = [media EXCEPT ![a] = m]
    BY <1>5, <2>1
  <2> QED
    BY <1>0, <1>5, <2>2, <2>3, MediaTypes DEF TypeOK, Stored
<1>6. CASE Invoke(a)
  <2>1. media[a].running \in 0 .. MaxCalls /\ media[a].running + 1 \in 0 .. MaxCalls
    BY <1>0, <1>6, ProducedCount, BoundAssumption DEF Invoke, Media
  <2> QED
    BY <1>5, <1>6, <2>1 DEF Invoke
<1>7. CASE Failed(a)
  <2>1. media[a].running - 1 \in 0 .. MaxCalls /\ media[a].id # NoId
    BY <1>0, <1>7, BoundAssumption DEF Failed, Media, MediaOK, NoMedia
  <2> QED
    BY <1>5, <1>7, <2>1 DEF Failed
<1>8. CASE Succeeded(a)
  <2>1. made + 1 \in Payload /\ made' \in 0 .. MaxMade
    BY <1>8, NextPayload DEF Succeeded
  <2>2. PICK x \in Artifact : x = BuildArtifact(a) /\ x.payload = made + 1
    <3>1. media[a].parent \in Id \cup {NoId} /\ ToolOutput \in SUBSET Taint
      BY <1>0 DEF Media, ToolOutput, Taint
    <3>2. {media[a].parent} \ {NoId} \in SUBSET Id
      BY <3>1
    <3>3. BuildArtifact(a) \in Artifact /\ BuildArtifact(a).payload = made + 1
      BY <2>1, <3>1, <3>2 DEF BuildArtifact, Artifact
    <3> QED
      BY <3>3
  <2>3. media[a].running - 1 \in 0 .. MaxCalls /\ media[a].id # NoId
    BY <1>0, <1>8, BoundAssumption DEF Succeeded, Media, MediaOK, NoMedia
  <2>4. PICK m \in Media :
             m = [media[a] EXCEPT !.running = @ - 1, !.sink = @ \cup {x},
                                  !.produced = @ \cup {made + 1}]
    BY <1>0, <2>1, <2>3 DEF Media
  <2>5. /\ m.sink = media[a].sink \cup {x} /\ m.produced = media[a].produced \cup {made + 1}
        /\ m.id # NoId
    BY <1>0, <2>3, <2>4 DEF Media
  <2>6. media' = [media EXCEPT ![a] = m]
    BY <1>8, <2>2, <2>4 DEF Succeeded
  <2>7. MediaOK(m)
    BY <1>0, <2>2, <2>5 DEF MediaOK
  <2> QED
    BY <1>8, <2>1, <2>6, <2>7, MediaTypes DEF Succeeded, TypeOK, Stored
<1>9. CASE EndTurn(a)
  <2>1. PICK m \in Media : m = [media[a] EXCEPT !.ended = TRUE]
    BY <1>0 DEF Media
  <2>2. MediaOK(m)
    BY <1>0, <1>9, <2>1 DEF EndTurn, Media, MediaOK
  <2>3. media' = [media EXCEPT ![a] = m]
    BY <1>9, <2>1 DEF EndTurn
  <2> QED
    BY <1>0, <1>9, <2>2, <2>3, MediaTypes DEF EndTurn, TypeOK, Stored
<1>10. ASSUME NEW left \in SUBSET media[a].sink, media' = [media EXCEPT ![a].sink = left],
              board' = board \/ \E x \in media[a].sink : board' = Added(media[a].id, x),
              media[a].id # NoId,
              UNCHANGED <<gated, granted, reader, seen, made>>
       PROVE  TypeOK'
  <2>1. PICK m \in Media : m = [media[a] EXCEPT !.sink = left]
    BY <1>0 DEF Media
  <2>2. MediaOK(m)
    BY <1>0, <1>10, <2>1 DEF Media, MediaOK
  <2>3. media' = [media EXCEPT ![a] = m]
    BY <1>10, <2>1
  <2>4. Stored' \subseteq Id /\ \A i \in Stored' : board'[i] \in Artifact
    <3>1. CASE board' = board
      BY <3>1 DEF TypeOK, Stored
    <3>2. ASSUME NEW x \in media[a].sink, board' = Added(media[a].id, x)
          PROVE  Stored' \subseteq Id /\ \A i \in Stored' : board'[i] \in Artifact
      BY <1>0, <1>10, <3>2, LandsTypes DEF Media
    <3> QED
      BY <1>10, <3>1, <3>2
  <2> QED
    BY <1>0, <1>10, <2>2, <2>3, <2>4, MediaTypes DEF TypeOK
<1>11. ASSUME NEW artifact \in media[a].sink, Store(a, artifact)
       PROVE  TypeOK'
  <2>1. media[a].id # NoId
    BY <1>0, <1>11 DEF MediaOK, NoMedia
  <2>2. media[a].sink \ {artifact} \in SUBSET media[a].sink
    OBVIOUS
  <2> QED
    BY <1>10, <1>11, <2>1, <2>2 DEF Store
<1>12. CASE StoreMany(a)
  <2>1. media[a].id # NoId
    BY <1>0, <1>12 DEF StoreMany, MediaOK, NoMedia
  <2>2. {} \in SUBSET media[a].sink
    OBVIOUS
  <2> QED
    BY <1>10, <1>12, <2>1, <2>2 DEF StoreMany
<1> QED
  BY <1>1, <1>2, <1>3, <1>4, <1>6, <1>7, <1>8, <1>9, <1>11, <1>12 DEF Work

LEMMA TypeStep == TypeOK /\ [Next]_vars => TypeOK'
<1> SUFFICES ASSUME TypeOK, [Next]_vars PROVE TypeOK'
  OBVIOUS
<1>1. CASE UNCHANGED vars
  BY <1>1 DEF vars, TypeOK, Stored
<1>2. CASE \E a \in Agent : Work(a)
  BY <1>2, TypeWork
<1>3. CASE \E id \in Id : RequireApproval(id) \/ GrantApproval(id)
  BY <1>3 DEF RequireApproval, GrantApproval, TypeOK, Stored
<1> QED
  BY <1>1, <1>2, <1>3 DEF Next

\* The types hold of every reachable state.
THEOREM TypeCorrect == Spec => []TypeOK
<1> QED
  BY TypeInit, TypeStep, PTL DEF Spec

-----------------------------------------------------------------------------
(* Taint and gates. *)

LEMMA InvInit == Init => Inv
<1>1. Init => TaintTravels /\ ApprovalHolds /\ Gates /\ Sinks
  BY DEF Init, TaintTravels, ApprovalHolds, Gates, Sinks, Stored, NoMedia
<1> QED
  BY <1>1, TypeInit DEF Inv

\* An artifact that keeps the taints of what it was made from, was made from
\* nothing that waits for approval but its parent, and has its gate, may land.
LEMMA LandingKeeps ==
    ASSUME Inv, NEW id \in Id, NEW x \in Artifact, Lands(id, x),
           UNCHANGED <<granted, reader, seen>>, gated \subseteq gated',
           x.approval => id \in gated',
           \A source \in x.from :
               /\ source \in Stored
               /\ x.lineage = ToolOutput \/ board[source].lineage \subseteq x.lineage
               /\ board[source].approval /\ source \notin granted => x.parent = source
    PROVE  TaintTravels' /\ ApprovalHolds' /\ Gates'
<1>1. /\ Stored' = Stored \cup {id} /\ id \notin Stored
      /\ board'[id] = x
      /\ \A i \in Stored : board'[i] = board[i]
  BY LandsOne DEF Lands
<1>2. TaintTravels'
  <2>1. \A a \in Agent : \A i \in seen'[a] :
            i \in Stored' /\ board'[i].lineage \cup {"canvas_read"} \subseteq reader'[a]
    BY <1>1 DEF Inv, TaintTravels
  <2>2. \A i \in Stored' : \A source \in board'[i].from :
            /\ source \in Stored'
            /\ \/ board'[i].lineage = ToolOutput
               \/ board'[source].lineage \subseteq board'[i].lineage
    BY <1>1 DEF Inv, TaintTravels
  <2> QED
    BY <2>1, <2>2 DEF TaintTravels
<1>3. ApprovalHolds'
  <2> SUFFICES ASSUME NEW i \in Stored', board'[i].approval, i \notin granted'
               PROVE  /\ \A a \in Agent : i \notin seen'[a]
                      /\ \A other \in Stored' :
                            i \in board'[other].from => board'[other].parent = i
    BY DEF ApprovalHolds
  <2>1. CASE i = id
    <3>1. \A a \in Agent : i \notin seen'[a]
      BY <1>1, <2>1 DEF Inv, TaintTravels
    <3>2. \A other \in Stored' : i \notin board'[other].from
      BY <1>1, <2>1 DEF Inv, TaintTravels
    <3> QED
      BY <3>1, <3>2
  <2>2. CASE i \in Stored
    <3>1. /\ \A a \in Agent : i \notin seen[a]
          /\ \A other \in Stored : i \in board[other].from => board[other].parent = i
      BY <1>1, <2>2 DEF Inv, ApprovalHolds
    <3>2. i \in x.from => x.parent = i
      BY <1>1, <2>2
    <3> QED
      BY <1>1, <3>1, <3>2
  <2> QED
    BY <1>1, <2>1, <2>2
<1>4. Gates'
  BY <1>1 DEF Inv, Gates
<1> QED
  BY <1>2, <1>3, <1>4

\* A step that leaves the board and what was read of it alone.
LEMMA QuietKeeps ==
    ASSUME Inv, UNCHANGED <<board, reader, seen>>,
           gated \subseteq gated', granted \subseteq granted'
    PROVE  TaintTravels' /\ ApprovalHolds' /\ Gates'
<1>1. Stored' = Stored
  BY DEF Stored
<1>2. TaintTravels'
  BY <1>1 DEF Inv, TaintTravels
<1>3. ApprovalHolds'
  BY <1>1 DEF Inv, ApprovalHolds
<1>4. Gates'
  BY <1>1 DEF Inv, Gates
<1> QED
  BY <1>2, <1>3, <1>4

\* What an agent has read is on the board, is in what it carries, and was let
\* through its gate.
LEMMA SeenIsAllowed ==
    ASSUME Inv, NEW a \in Agent, NEW i \in seen[a]
    PROVE  /\ i \in Stored
           /\ board[i].lineage \subseteq reader[a]
           /\ ~ (board[i].approval /\ i \notin granted)
BY DEF Inv, TaintTravels, ApprovalHolds

LEMMA InvAppend ==
    ASSUME Inv, NEW a \in Agent, NEW id \in Id, NEW parent \in Id \cup {NoId},
           NEW approval \in BOOLEAN, AppendArtifact(a, id, parent, approval)
    PROVE  TaintTravels' /\ ApprovalHolds' /\ Gates' /\ Sinks'
<1>1. made + 1 \in Payload
  BY NextPayload DEF AppendArtifact, Inv
<1>2. PICK x : /\ x = [payload |-> made + 1, parent |-> parent, lineage |-> reader[a],
                       from |-> seen[a], approval |-> approval]
               /\ board' = Added(id, x)
  BY DEF AppendArtifact
<1>3. x \in Artifact
  BY <1>1, <1>2 DEF Artifact, Inv, TypeOK
<1>4. x.from = seen[a] /\ x.lineage = reader[a] /\ (x.approval => approval)
  BY <1>2
<1>5. Lands(id, x)
  BY <1>2 DEF Lands, AppendArtifact, Refused
<1>6. \A source \in x.from :
          /\ source \in Stored
          /\ board[source].lineage \subseteq x.lineage
          /\ ~ (board[source].approval /\ source \notin granted)
  BY <1>4, SeenIsAllowed
<1>7. /\ UNCHANGED <<granted, reader, seen, media>>
      /\ gated \subseteq gated' /\ (x.approval => id \in gated')
  BY <1>4 DEF AppendArtifact
<1>8. TaintTravels' /\ ApprovalHolds' /\ Gates'
  BY <1>3, <1>5, <1>6, <1>7, LandingKeeps
<1>9. Sinks'
  BY <1>7 DEF Inv, Sinks
<1> QED
  BY <1>8, <1>9

LEMMA InvRevise ==
    ASSUME Inv, NEW a \in Agent, NEW id \in Id, NEW parent \in Id \cup {NoId},
           NEW override \in BOOLEAN, Revise(a, parent, id, override)
    PROVE  TaintTravels' /\ ApprovalHolds' /\ Gates' /\ Sinks'
<1>1. made + 1 \in Payload /\ parent \in Stored /\ parent \in Id
  BY NextPayload DEF Revise, Inv, TypeOK
<1>2. PICK x : /\ x = [payload |-> made + 1, parent |-> parent,
                       lineage |-> RevisionLineage(a, parent, override),
                       from |-> IF override THEN seen[a] ELSE {parent}, approval |-> FALSE]
               /\ board' = Added(id, x)
  BY DEF Revise
<1>3. /\ RevisionLineage(a, parent, override) \in SUBSET Taint
      /\ (IF override THEN seen[a] ELSE {parent}) \in SUBSET Id
  BY <1>1 DEF RevisionLineage, Artifact, Inv, TypeOK
<1>4. x \in Artifact
  BY <1>1, <1>2, <1>3 DEF Artifact
<1>5. /\ x.lineage = (IF override THEN reader[a] ELSE board[parent].lineage)
      /\ x.from = (IF override THEN seen[a] ELSE {parent})
      /\ ~ x.approval /\ x.parent = parent
  BY <1>2 DEF RevisionLineage
<1>6. Lands(id, x)
  BY <1>2 DEF Lands, Revise, Refused
<1>7. \A source \in x.from :
          /\ source \in Stored
          /\ board[source].lineage \subseteq x.lineage
          /\ board[source].approval /\ source \notin granted => x.parent = source
  <2>1. CASE override
    BY <1>5, <2>1, SeenIsAllowed
  <2>2. CASE ~ override
    BY <1>1, <1>5, <2>2
  <2> QED
    BY <2>1, <2>2
<1>8. UNCHANGED <<granted, reader, seen, media>> /\ gated \subseteq gated'
  BY DEF Revise
<1>9. TaintTravels' /\ ApprovalHolds' /\ Gates'
  BY <1>4, <1>5, <1>6, <1>7, <1>8, LandingKeeps
<1>10. Sinks'
  BY <1>8 DEF Inv, Sinks
<1> QED
  BY <1>9, <1>10

LEMMA InvRead ==
    ASSUME Inv, NEW a \in Agent, NEW id \in Id, Read(a, id)
    PROVE  TaintTravels' /\ ApprovalHolds' /\ Gates' /\ Sinks'
<1>1. /\ id \in Stored /\ ~ IsGated(id)
      /\ UNCHANGED <<board, gated, granted, media, made>>
      /\ Stored' = Stored
  BY DEF Read, Stored
<1>2. /\ reader' = [reader EXCEPT ![a] = TaintForReader(@, board[id])]
      /\ seen' = [seen EXCEPT ![a] = @ \cup {id}]
      /\ reader \in [Agent -> SUBSET Taint] /\ seen \in [Agent -> SUBSET Id]
  BY DEF Read, Inv, TypeOK
<1>3. \A b \in Agent : /\ reader[b] \subseteq reader'[b]
                       /\ seen[b] \subseteq seen'[b]
                       /\ \A i \in seen'[b] : i \in seen[b] \/ (b = a /\ i = id)
  BY <1>2 DEF TaintForReader
<1>4. board[id].lineage \cup {"canvas_read"} \subseteq reader'[a]
  BY <1>2 DEF TaintForReader
<1>5. TaintTravels'
  <2>1. \A b \in Agent : \A i \in seen'[b] :
            i \in Stored' /\ board'[i].lineage \cup {"canvas_read"} \subseteq reader'[b]
    <3> SUFFICES ASSUME NEW b \in Agent, NEW i \in seen'[b]
                 PROVE  i \in Stored /\ board[i].lineage \cup {"canvas_read"} \subseteq reader'[b]
      BY <1>1
    <3>1. CASE i \in seen[b]
      BY <1>3, <3>1 DEF Inv, TaintTravels
    <3>2. CASE b = a /\ i = id
      BY <1>1, <1>4, <3>2
    <3> QED
      BY <1>3, <3>1, <3>2
  <2>2. \A i \in Stored' : \A source \in board'[i].from :
            /\ source \in Stored'
            /\ \/ board'[i].lineage = ToolOutput
               \/ board'[source].lineage \subseteq board'[i].lineage
    BY <1>1 DEF Inv, TaintTravels
  <2> QED
    BY <2>1, <2>2 DEF TaintTravels
<1>6. ApprovalHolds'
  <2> SUFFICES ASSUME NEW i \in Stored, board[i].approval, i \notin granted
               PROVE  /\ \A b \in Agent : i \notin seen'[b]
                      /\ \A other \in Stored : i \in board[other].from => board[other].parent = i
    BY <1>1 DEF ApprovalHolds
  <2>1. i # id
    BY <1>1 DEF Inv, Gates, IsGated
  <2> QED
    BY <1>3, <2>1 DEF Inv, ApprovalHolds
<1>7. Gates' /\ Sinks'
  BY <1>1, <1>3 DEF Inv, Gates, Sinks
<1> QED
  BY <1>5, <1>6, <1>7

\* The media steps that do not touch the board.
LEMMA InvCalls ==
    ASSUME Inv, NEW a \in Agent,
           \/ \E id \in Id, parent \in Id \cup {NoId} : Bind(a, id, parent)
           \/ Invoke(a) \/ Failed(a) \/ Succeeded(a) \/ EndTurn(a)
    PROVE  TaintTravels' /\ ApprovalHolds' /\ Gates' /\ Sinks'
<1>1. UNCHANGED <<board, gated, granted, reader, seen>>
  BY DEF Bind, Invoke, Failed, Succeeded, EndTurn
<1>2. TaintTravels' /\ ApprovalHolds' /\ Gates'
  BY <1>1, QuietKeeps
<1>3. /\ media \in [Agent -> Media] /\ media[a].parent \in seen[a] \cup {NoId}
      /\ \A b \in Agent : b # a => media'[b] = media[b]
  BY DEF Inv, TypeOK, Sinks, Bind, Invoke, Failed, Succeeded, EndTurn
<1>4. media'[a].parent \in seen[a] \cup {NoId}
  <2>1. CASE \E id \in Id, parent \in Id \cup {NoId} : Bind(a, id, parent)
    BY <1>3, <2>1 DEF Bind, Media
  <2>2. CASE Invoke(a) \/ Failed(a) \/ EndTurn(a)
    BY <1>3, <2>2 DEF Invoke, Failed, EndTurn, Media
  <2>3. CASE Succeeded(a)
    BY <1>3, <2>3 DEF Succeeded, Media
  <2> QED
    BY <2>1, <2>2, <2>3
<1>5. media'[a].sink \subseteq media[a].sink \cup {BuildArtifact(a)}
  <2>1. CASE \E id \in Id, parent \in Id \cup {NoId} : Bind(a, id, parent)
    BY <1>3, <2>1 DEF Bind, Media
  <2>2. CASE Invoke(a) \/ Failed(a) \/ EndTurn(a)
    BY <1>3, <2>2 DEF Invoke, Failed, EndTurn, Media
  <2>3. CASE Succeeded(a)
    BY <1>3, <2>3 DEF Succeeded, Media
  <2> QED
    BY <2>1, <2>2, <2>3
<1>6. /\ BuildArtifact(a).lineage = ToolOutput
      /\ BuildArtifact(a).from \subseteq seen[a]
      /\ ~ BuildArtifact(a).approval
  BY <1>3 DEF BuildArtifact
<1>7. Sinks'
  BY <1>1, <1>3, <1>4, <1>5, <1>6 DEF Inv, Sinks
<1> QED
  BY <1>2, <1>7

\* The host stores a turn's media, one by one or as a batch.
LEMMA InvStore ==
    ASSUME Inv, NEW a \in Agent,
           (\E artifact \in media[a].sink : Store(a, artifact)) \/ StoreMany(a)
    PROVE  TaintTravels' /\ ApprovalHolds' /\ Gates' /\ Sinks'
<1>1. /\ UNCHANGED <<gated, granted, reader, seen>>
      /\ board' = board \/ \E x \in media[a].sink : Lands(media[a].id, x)
  BY DEF Store, StoreMany, Lands, Refused
<1>2. /\ media \in [Agent -> Media] /\ media[a] \in Media /\ MediaOK(media[a])
      /\ \A b \in Agent : /\ media'[b].parent = media[b].parent
                          /\ media'[b].sink \subseteq media[b].sink
  <2>1. media \in [Agent -> Media] /\ media[a] \in Media /\ MediaOK(media[a])
    BY DEF Inv, TypeOK
  <2>2. \E left \in SUBSET media[a].sink : media' = [media EXCEPT ![a].sink = left]
    BY DEF Store, StoreMany
  <2> QED
    BY <2>1, <2>2 DEF Media
<1>3. Sinks'
  BY <1>1, <1>2 DEF Inv, Sinks
<1>4. CASE board' = board
  BY <1>1, <1>3, <1>4, QuietKeeps
<1>5. ASSUME NEW x \in media[a].sink, Lands(media[a].id, x)
      PROVE  TaintTravels' /\ ApprovalHolds' /\ Gates'
  <2>1. x \in Artifact /\ media[a].id \in Id
    BY <1>2, <1>5 DEF Media, MediaOK, NoMedia
  <2>2. x.lineage = ToolOutput /\ x.from \subseteq seen[a] /\ ~ x.approval
    BY <1>5 DEF Inv, Sinks
  <2>3. \A source \in x.from :
            source \in Stored /\ ~ (board[source].approval /\ source \notin granted)
    BY <2>2, SeenIsAllowed
  <2> QED
    BY <1>1, <1>5, <2>1, <2>2, <2>3, LandingKeeps
<1> QED
  BY <1>1, <1>3, <1>4, <1>5

LEMMA InvStep == Inv /\ [Next]_vars => Inv'
<1> SUFFICES ASSUME Inv, [Next]_vars PROVE Inv'
  OBVIOUS
<1>1. TypeOK'
  BY TypeStep DEF Inv
<1>2. CASE UNCHANGED vars
  <2>1. TaintTravels' /\ ApprovalHolds' /\ Gates'
    BY <1>2, QuietKeeps DEF vars
  <2>2. Sinks'
    BY <1>2 DEF vars, Inv, Sinks
  <2> QED
    BY <1>1, <2>1, <2>2 DEF Inv
<1>3. ASSUME NEW a \in Agent, Work(a)
      PROVE  Inv'
  <2>1. TaintTravels' /\ ApprovalHolds' /\ Gates' /\ Sinks'
    BY <1>3, InvAppend, InvRevise, InvRead, InvCalls, InvStore DEF Work
  <2> QED
    BY <1>1, <2>1 DEF Inv
<1>4. ASSUME NEW id \in Id, RequireApproval(id) \/ GrantApproval(id)
      PROVE  Inv'
  <2>1. /\ UNCHANGED <<board, reader, seen, media>>
        /\ gated \subseteq gated' /\ granted \subseteq granted'
    BY <1>4 DEF RequireApproval, GrantApproval
  <2>2. TaintTravels' /\ ApprovalHolds' /\ Gates'
    BY <2>1, QuietKeeps
  <2>3. Sinks'
    BY <2>1 DEF Inv, Sinks
  <2> QED
    BY <1>1, <2>2, <2>3 DEF Inv
<1> QED
  BY <1>2, <1>3, <1>4 DEF Next

LEMMA InvHolds == Spec => []Inv
<1> QED
  BY InvInit, InvStep, PTL DEF Spec

\* Taint on read: whatever an agent has read is in what it carries, and what
\* was made from it keeps the taint, through any number of agents.
THEOREM TaintIsKept == Spec => []TaintTravels
<1>1. Inv => TaintTravels
  BY DEF Inv
<1> QED
  BY <1>1, InvHolds, PTL

\* Gates fail closed: nothing appended for approval is read, or made into
\* anything but a revision, before it is granted.
THEOREM GatesFailClosed == Spec => []ApprovalHolds
<1>1. Inv => ApprovalHolds
  BY DEF Inv
<1> QED
  BY <1>1, InvHolds, PTL

-----------------------------------------------------------------------------
(* The walk up: that there is a function that Walk defines.  Each proof     *)
(* takes a counterexample that leaves fewest artifacts to visit.           *)

Node == Id \cup {NoId}
Parent(c) == board[c].parent
Stops(visited, c) == c \in visited \/ c \notin Stored

\* The visited sets that leave no other artifacts than those of T.
Within(T) == {v \in SUBSET Id : Stored \ v \subseteq T}

OneWalk(w, v, c) == IF Stops(v, c) THEN << >> ELSE << c >> \o w[v \cup {c}][Parent(c)]
IsWalk(w, T) == w = [v \in Within(T) |-> [c \in Node |-> OneWalk(w, v, c)]]
WalkOf(T) == CHOOSE w : IsWalk(w, T)

\* The graph that a walk may meet: finitely many artifacts, whose parents may be anything.
Graph == IsFiniteSet(Stored) /\ Stored \subseteq Id /\ \A c \in Stored : Parent(c) \in Node

LEMMA WalkAt ==
    ASSUME NEW w, NEW T, IsWalk(w, T), NEW v \in Within(T)
    PROVE  w[v] = [c \in Node |-> OneWalk(w, v, c)]
BY DEF IsWalk

\* A step of a walk leaves fewer.
LEMMA FewerLeft ==
    ASSUME Graph, NEW v \in SUBSET Id, NEW c, ~ Stops(v, c)
    PROVE  /\ v \cup {c} \in SUBSET Id /\ Parent(c) \in Node /\ c \in Node /\ c \in Stored
           /\ Stored \ (v \cup {c}) \subseteq Stored \ v /\ Stored \ (v \cup {c}) # Stored \ v
           /\ c \in Stored \ v
BY DEF Graph, Stops, Node

LEMMA WalksAgree ==
    ASSUME Graph, NEW S, NEW T, T \subseteq S, S \subseteq Stored,
           NEW w, IsWalk(w, S), NEW u, IsWalk(u, T)
    PROVE  \A v \in Within(T) : w[v] = u[v]
<1> DEFINE Differ == {v \in Within(T) : w[v] # u[v]}
           D == {Stored \ v : v \in Differ}
<1> SUFFICES ASSUME Differ # {} PROVE FALSE
  OBVIOUS
<1>1. PICK m \in D : \A s \in D : ~ (s \subseteq m /\ s # m)
  <2>1. D \subseteq SUBSET Stored /\ D # {} /\ IsFiniteSet(Stored)
    BY DEF Graph
  <2> HIDE DEF D
  <2> QED BY <2>1, Smallest
<1>2. PICK v \in Differ : m = Stored \ v
  OBVIOUS
<1>3. v \in Within(T) /\ v \in Within(S) /\ v \in SUBSET Id /\ w[v] # u[v]
  BY DEF Within
<1>4. \A x \in Within(T) : Stored \ x \subseteq m /\ Stored \ x # m => w[x] = u[x]
  BY <1>1
<1> HIDE DEF D, Differ
<1>5. ASSUME NEW c \in Node PROVE OneWalk(w, v, c) = OneWalk(u, v, c)
  <2>1. CASE Stops(v, c)
    BY <2>1 DEF OneWalk
  <2>2. CASE ~ Stops(v, c)
    <3>1. PICK x : x = v \cup {c}
      OBVIOUS
    <3>2. x \in Within(T) /\ Stored \ x \subseteq m /\ Stored \ x # m
      BY <1>2, <1>3, <2>2, <3>1, FewerLeft DEF Within
    <3>3. w[x] = u[x]
      BY <1>4, <3>2
    <3> QED BY <2>2, <3>1, <3>3 DEF OneWalk
  <2> QED BY <2>1, <2>2
<1>6. w[v] = [c \in Node |-> OneWalk(w, v, c)]
  BY <1>3, WalkAt
<1>7. u[v] = [c \in Node |-> OneWalk(u, v, c)]
  BY <1>3, WalkAt
<1>8. [c \in Node |-> OneWalk(w, v, c)] = [c \in Node |-> OneWalk(u, v, c)]
  BY <1>5
<1> QED BY <1>3, <1>6, <1>7, <1>8

LEMMA WalkExists ==
    ASSUME Graph
    PROVE  IsWalk(WalkOf(Stored), Stored)
<1> DEFINE D == {t \in SUBSET Stored : ~ IsWalk(WalkOf(t), t)}
<1> SUFFICES ASSUME D # {} PROVE FALSE
  OBVIOUS
<1>1. PICK m \in D : \A s \in D : ~ (s \subseteq m /\ s # m)
  <2>1. D \subseteq SUBSET Stored /\ IsFiniteSet(Stored)
    BY DEF Graph
  <2> HIDE DEF D
  <2> QED BY <2>1, Smallest
<1>2. m \in SUBSET Stored /\ ~ IsWalk(WalkOf(m), m)
  OBVIOUS
<1>3. \A t \in SUBSET m : t # m => IsWalk(WalkOf(t), t)
  BY <1>1, <1>2
<1> HIDE DEF D
<1> DEFINE G == [v \in SUBSET Id |-> WalkOf(Stored \ v)[v]]
           g == [v \in Within(m) |-> [c \in Node |-> OneWalk(G, v, c)]]
<1>4. ASSUME NEW v \in Within(m), Stored \ v # m PROVE g[v] = G[v]
  <2>1. PICK t : t = Stored \ v
    OBVIOUS
  <2>2. t \in SUBSET m /\ t # m /\ v \in Within(t) /\ v \in SUBSET Id
    BY <1>4, <2>1 DEF Within
  <2>3. IsWalk(WalkOf(t), t)
    BY <1>3, <2>2
  <2>4. G[v] = WalkOf(t)[v]
    BY <2>1, <2>2
  <2> HIDE DEF G
  <2>5. G[v] = [c \in Node |-> OneWalk(WalkOf(t), v, c)]
    BY <2>2, <2>3, <2>4, WalkAt
  <2>6. ASSUME NEW c \in Node PROVE OneWalk(WalkOf(t), v, c) = OneWalk(G, v, c)
    <3>1. CASE Stops(v, c)
      BY <3>1 DEF OneWalk
    <3>2. CASE ~ Stops(v, c)
      <4>1. PICK x : x = v \cup {c}
        OBVIOUS
      <4>2. PICK r : r = Stored \ x
        OBVIOUS
      <4>3. x \in SUBSET Id /\ r \subseteq t /\ r # t /\ x \in Within(r)
        BY <2>1, <2>2, <3>2, <4>1, <4>2, FewerLeft DEF Within
      <4>4. r \in SUBSET m /\ r # m
        BY <2>2, <4>3
      <4>5. IsWalk(WalkOf(r), r)
        BY <1>3, <4>4
      <4>6. t \subseteq Stored
        BY <2>1
      <4>7. WalkOf(t)[x] = WalkOf(r)[x]
        BY <2>3, <4>3, <4>5, <4>6, WalksAgree
      <4>8. G[x] = WalkOf(r)[x]
        BY <4>2, <4>3 DEF G
      <4> QED BY <3>2, <4>1, <4>7, <4>8 DEF OneWalk
    <3> QED BY <3>1, <3>2
  <2>7. [c \in Node |-> OneWalk(WalkOf(t), v, c)] = [c \in Node |-> OneWalk(G, v, c)]
    BY <2>6
  <2> QED BY <2>5, <2>7
<1>5. ASSUME NEW v \in Within(m), NEW c \in Node PROVE OneWalk(G, v, c) = OneWalk(g, v, c)
  <2> HIDE DEF G, g
  <2>1. CASE Stops(v, c)
    BY <2>1 DEF OneWalk
  <2>2. CASE ~ Stops(v, c)
    <3>1. PICK x : x = v \cup {c}
      OBVIOUS
    <3>2. v \in SUBSET Id /\ Stored \ v \subseteq m
      BY DEF Within
    <3>3. x \in Within(m) /\ Stored \ x # m
      BY <2>2, <3>1, <3>2, FewerLeft DEF Within
    <3>4. g[x] = G[x]
      BY <1>4, <3>3
    <3> QED BY <2>2, <3>1, <3>4 DEF OneWalk
  <2> QED BY <2>1, <2>2
<1> HIDE DEF G
<1>6. g = [v \in Within(m) |-> [c \in Node |-> OneWalk(G, v, c)]]
  OBVIOUS
<1> HIDE DEF g
<1>7. g = [v \in Within(m) |-> [c \in Node |-> OneWalk(g, v, c)]]
  BY <1>5, <1>6
<1>8. IsWalk(g, m)
  BY <1>7 DEF IsWalk
<1>9. IsWalk(WalkOf(m), m)
  BY <1>8 DEF WalkOf
<1> QED BY <1>2, <1>9

\* So that Walk does what it says.
LEMMA WalkDoes ==
    ASSUME Graph, NEW v \in SUBSET Id, NEW c \in Node
    PROVE  Walk[v][c] = IF Stops(v, c) THEN << >> ELSE << c >> \o Walk[v \cup {c}][Parent(c)]
<1> DEFINE Is(w) == w = [visited \in SUBSET Id |-> [current \in Id \cup {NoId} |->
                            IF current \in visited \/ current \notin Stored THEN << >>
                            ELSE << current >> \o w[visited \cup {current}][board[current].parent]]]
<1>1. Walk = CHOOSE w : Is(w)
  BY DEF Walk
<1>2. Within(Stored) = SUBSET Id
  BY DEF Within
<1>3. ASSUME NEW w PROVE IsWalk(w, Stored) <=> Is(w)
  BY <1>2 DEF IsWalk, OneWalk, Stops, Node, Parent
<1> HIDE DEF Is
<1>4. Is(WalkOf(Stored))
  BY <1>3, WalkExists
<1>5. PICK w : w = Walk
  OBVIOUS
<1>6. IsWalk(w, Stored)
  BY <1>1, <1>3, <1>4, <1>5
<1>7. w[v] = [d \in Node |-> OneWalk(w, v, d)]
  <2>1. v \in Within(Stored)
    BY <1>2
  <2> QED BY <1>6, <2>1, WalkAt
<1>8. w[v][c] = OneWalk(w, v, c)
  BY <1>7
<1> QED BY <1>5, <1>8 DEF OneWalk

\* The artifacts on the way up from c, the visited ones left out.
On(v, c) == {Walk[v][c][i] : i \in DOMAIN Walk[v][c]}

\* A way: it starts at c, goes from parent to parent, and meets nothing visited or twice.
Way(v, c, s) ==
    /\ s \in Seq(Stored)
    /\ s # << >> => s[1] = c
    /\ \A i \in 1 .. Len(s) - 1 : Parent(s[i]) = s[i + 1]
    /\ \A i \in DOMAIN s : s[i] \notin v
    /\ \A i, j \in DOMAIN s : s[i] = s[j] => i = j

LEMMA WayGrows ==
    ASSUME NEW v, NEW c \in Stored, c \notin v, NEW t, Way(v \cup {c}, Parent(c), t),
           NEW s, s = << c >> \o t
    PROVE  Way(v, c, s)
<1>1. PICK n \in Nat : n = Len(t) /\ DOMAIN t = 1 .. n
  BY DEF Way
<1>2. /\ t \in Seq(Stored) /\ \A i \in 1 .. n : t[i] \in Stored /\ t[i] \notin v /\ t[i] # c
      /\ \A i, j \in 1 .. n : t[i] = t[j] => i = j
      /\ \A i \in 1 .. n - 1 : Parent(t[i]) = t[i + 1]
  <2>1. t \in Seq(Stored) /\ \A i \in 1 .. n : t[i] \notin v /\ t[i] # c
    BY <1>1 DEF Way
  <2>2. \A i \in 1 .. n : t[i] \in Stored
    BY <1>1, <2>1
  <2>3. \A i, j \in 1 .. n : t[i] = t[j] => i = j
    BY <1>1 DEF Way
  <2>4. \A i \in 1 .. n - 1 : Parent(t[i]) = t[i + 1]
    BY <1>1 DEF Way
  <2> QED BY <2>1, <2>2, <2>3, <2>4
<1>3. n >= 1 => t[1] = Parent(c)
  BY <1>1 DEF Way
<1>4. /\ s \in Seq(Stored) /\ Len(s) = n + 1 /\ DOMAIN s = 1 .. n + 1 /\ s[1] = c
      /\ \A i \in 2 .. n + 1 : s[i] = t[i - 1]
  BY <1>1, <1>2
<1>5. \A i \in 1 .. n : Parent(s[i]) = s[i + 1]
  <2> SUFFICES ASSUME NEW i \in 1 .. n PROVE Parent(s[i]) = s[i + 1]
    OBVIOUS
  <2>1. s[i + 1] = t[i]
    BY <1>1, <1>4
  <2>2. CASE i = 1
    BY <1>3, <1>4, <2>1, <2>2
  <2>3. CASE i # 1
    <3>1. PICK k \in 1 .. n - 1 : k + 1 = i
      BY <2>3
    <3>2. s[i] = t[k] /\ Parent(t[k]) = t[i]
      BY <1>2, <1>4, <2>3, <3>1
    <3> QED BY <2>1, <3>2
  <2> QED BY <2>2, <2>3
<1>6. \A i \in 2 .. n + 1 : s[i] \notin v /\ s[i] # c
  BY <1>1, <1>2, <1>4
<1>7. \A i \in 1 .. n + 1 : s[i] \notin v
  BY <1>4, <1>6
<1>8. \A i, j \in 1 .. n + 1 : s[i] = s[j] => i = j
  <2> SUFFICES ASSUME NEW i \in 1 .. n + 1, NEW j \in 1 .. n + 1, s[i] = s[j] PROVE i = j
    OBVIOUS
  <2>1. CASE i = 1 \/ j = 1
    BY <1>4, <1>6, <2>1
  <2>2. CASE i # 1 /\ j # 1
    <3>1. PICK k \in 1 .. n, l \in 1 .. n : k + 1 = i /\ l + 1 = j
      BY <1>1, <2>2
    <3>2. t[k] = t[l]
      BY <1>4, <2>2, <3>1
    <3> QED BY <1>2, <3>1, <3>2
  <2> QED BY <2>1, <2>2
<1>9. Len(s) - 1 = n
  BY <1>4
<1> QED BY <1>4, <1>5, <1>7, <1>8, <1>9 DEF Way

\* What is left to visit, the least of which is a counterexample's.
LEMMA LeastLeft ==
    ASSUME Graph, NEW Bad, Bad \subseteq (SUBSET Id) \X Node, Bad # {}
    PROVE  \E v \in SUBSET Id, c \in Node :
              /\ <<v, c>> \in Bad
              /\ ~ Stops(v, c) => <<v \cup {c}, Parent(c)>> \notin Bad
<1> DEFINE D == {Stored \ b[1] : b \in Bad}
<1>1. PICK m \in D : \A s \in D : ~ (s \subseteq m /\ s # m)
  <2>1. D \subseteq SUBSET Stored /\ D # {} /\ IsFiniteSet(Stored)
    BY DEF Graph
  <2> HIDE DEF D
  <2> QED BY <2>1, Smallest
<1>2. PICK b \in Bad : m = Stored \ b[1]
  OBVIOUS
<1>3. PICK v \in SUBSET Id, c \in Node : b = <<v, c>>
  OBVIOUS
<1>4. ASSUME ~ Stops(v, c), <<v \cup {c}, Parent(c)>> \in Bad PROVE FALSE
  <2>1. PICK x : x = v \cup {c}
    OBVIOUS
  <2>2. Stored \ x \in D
    <3>1. PICK e : e = <<x, Parent(c)>>
      OBVIOUS
    <3>2. e \in Bad /\ e[1] = x
      BY <1>4, <2>1, <3>1
    <3> QED BY <3>2
  <2>3. Stored \ x \subseteq m /\ Stored \ x # m
    BY <1>2, <1>3, <1>4, <2>1, FewerLeft
  <2> QED BY <1>1, <2>2, <2>3
<1>5. <<v, c>> \in Bad
  BY <1>2, <1>3
<1> QED BY <1>4, <1>5

LEMMA WalkIsWay ==
    ASSUME Graph, NEW v \in SUBSET Id, NEW c \in Node
    PROVE  Way(v, c, Walk[v][c])
<1> DEFINE Bad == {b \in (SUBSET Id) \X Node : ~ Way(b[1], b[2], Walk[b[1]][b[2]])}
<1> SUFFICES ASSUME Bad # {} PROVE FALSE
  <2>1. <<v, c>> \notin Bad => Way(v, c, Walk[v][c])
    OBVIOUS
  <2> QED BY <2>1
<1>1. PICK x \in SUBSET Id, d \in Node :
          <<x, d>> \in Bad /\ (~ Stops(x, d) => <<x \cup {d}, Parent(d)>> \notin Bad)
  <2>1. Bad \subseteq (SUBSET Id) \X Node
    OBVIOUS
  <2> HIDE DEF Bad
  <2> QED BY <2>1, LeastLeft
<1>2. ~ Way(x, d, Walk[x][d])
  BY <1>1
<1>3. CASE Stops(x, d)
  <2>1. Walk[x][d] = << >>
    BY <1>3, WalkDoes
  <2>2. Way(x, d, << >>)
    BY DEF Way
  <2> QED BY <1>2, <2>1, <2>2
<1>4. CASE ~ Stops(x, d)
  <2>1. PICK y, p : y = x \cup {d} /\ p = Parent(d)
    OBVIOUS
  <2>2. y \in SUBSET Id /\ p \in Node /\ d \in Stored /\ d \notin x
    BY <1>4, <2>1, FewerLeft DEF Stops
  <2>3. Way(y, p, Walk[y][p])
    <3>1. <<y, p>> \notin Bad /\ <<y, p>> \in (SUBSET Id) \X Node
      BY <1>1, <1>4, <2>1, <2>2
    <3> QED BY <3>1
  <2>4. Walk[x][d] = << d >> \o Walk[y][p]
    BY <1>4, <2>1, WalkDoes
  <2> HIDE DEF Bad
  <2> QED BY <1>2, <2>1, <2>2, <2>3, <2>4, WayGrows
<1> QED BY <1>3, <1>4

LEMMA OnIs ==
    ASSUME Graph, NEW v \in SUBSET Id, NEW c \in Node
    PROVE  On(v, c) = IF Stops(v, c) THEN {} ELSE {c} \cup On(v \cup {c}, Parent(c))
<1>1. CASE Stops(v, c)
  <2>1. Walk[v][c] = << >>
    BY <1>1, WalkDoes
  <2> QED BY <1>1, <2>1 DEF On
<1>2. CASE ~ Stops(v, c)
  <2>1. PICK s, t : s = Walk[v][c] /\ t = Walk[v \cup {c}][Parent(c)]
    OBVIOUS
  <2>2. s = << c >> \o t
    BY <1>2, <2>1, WalkDoes
  <2>3. t \in Seq(Stored) /\ c \in Stored
    <3>1. v \cup {c} \in SUBSET Id /\ Parent(c) \in Node /\ c \in Stored
      BY <1>2, FewerLeft
    <3> QED BY <2>1, <3>1, WalkIsWay DEF Way
  <2>4. PICK n \in Nat : n = Len(t) /\ DOMAIN t = 1 .. n
    BY <2>3
  <2>5. DOMAIN s = 1 .. n + 1 /\ s[1] = c /\ \A i \in 1 .. n : s[i + 1] = t[i]
    BY <2>2, <2>3, <2>4
  <2>6. \A y : (\E i \in DOMAIN s : y = s[i]) <=> (y = c \/ \E i \in DOMAIN t : y = t[i])
    <3> SUFFICES ASSUME NEW y
                 PROVE  (\E i \in DOMAIN s : y = s[i]) <=> (y = c \/ \E i \in DOMAIN t : y = t[i])
      OBVIOUS
    <3>1. ASSUME NEW i \in DOMAIN s, y = s[i], y # c PROVE \E k \in DOMAIN t : y = t[k]
      <4>1. PICK k \in 1 .. n : k + 1 = i
        BY <2>5, <3>1
      <4>2. k \in DOMAIN t /\ y = t[k]
        BY <2>4, <2>5, <3>1, <4>1
      <4> QED BY <4>2
    <3>2. ASSUME NEW i \in DOMAIN t, y = t[i] PROVE \E k \in DOMAIN s : y = s[k]
      <4>1. i \in 1 .. n /\ i + 1 \in 1 .. n + 1
        BY <2>4
      <4>2. i + 1 \in DOMAIN s /\ y = s[i + 1]
        BY <2>5, <3>2, <4>1
      <4> QED BY <4>2
    <3>3. 1 \in DOMAIN s /\ s[1] = c
      BY <2>5
    <3>4. y = c => \E k \in DOMAIN s : y = s[k]
      BY <3>3
    <3> QED BY <3>1, <3>2, <3>4
  <2>7. On(v, c) = {s[i] : i \in DOMAIN s} /\ On(v \cup {c}, Parent(c)) = {t[i] : i \in DOMAIN t}
    BY <2>1 DEF On
  <2>8. {s[i] : i \in DOMAIN s} = {c} \cup {t[i] : i \in DOMAIN t}
    BY <2>6
  <2> QED BY <1>2, <2>7, <2>8
<1> QED BY <1>1, <1>2

-----------------------------------------------------------------------------
(* The search down: it finds what every set that is closed under children must hold. *)

Closed(S) == \A i \in S : Children(i) \subseteq S
Reach(V) == {i \in Id : \A S \in SUBSET Id : V \subseteq S /\ Closed(S) => i \in S}
Spread(V) == V \cup UNION {Children(i) : i \in V}
Found(s, V) == IF Spread(V) = V THEN V ELSE s[Spread(V)]
IsSearch(s) == s = [V \in SUBSET Id |-> Found(s, V)]

LEMMA SpreadIs ==
    ASSUME Graph, NEW V \in SUBSET Id
    PROVE  /\ Spread(V) \in SUBSET Id /\ V \subseteq Spread(V) /\ Spread(V) \ V \subseteq Stored
           /\ Reach(Spread(V)) = Reach(V) /\ (Spread(V) = V => Reach(V) = V)
<1>1. \A i : Children(i) \subseteq Stored
  BY DEF Children
<1>2. PICK W : W = Spread(V)
  OBVIOUS
<1>3. W \in SUBSET Id /\ V \subseteq W /\ W \ V \subseteq Stored
  BY <1>1, <1>2 DEF Spread, Graph
<1>4. \A S \in SUBSET Id : Closed(S) => (V \subseteq S <=> W \subseteq S)
  BY <1>2, <1>3 DEF Spread, Closed
<1>5. Reach(W) = Reach(V)
  BY <1>4 DEF Reach
<1>6. ASSUME W = V PROVE Reach(V) = V
  <2>1. Closed(V)
    BY <1>2, <1>6 DEF Spread, Closed
  <2> QED BY <2>1 DEF Reach
<1> QED BY <1>2, <1>3, <1>5, <1>6

LEMMA SearchExists ==
    ASSUME Graph
    PROVE  IsSearch([V \in SUBSET Id |-> Reach(V)])
<1>1. PICK s : s = [V \in SUBSET Id |-> Reach(V)]
  OBVIOUS
<1>2. ASSUME NEW V \in SUBSET Id PROVE Reach(V) = Found(s, V)
  <2>1. Spread(V) \in SUBSET Id /\ Reach(Spread(V)) = Reach(V) /\ (Spread(V) = V => Reach(V) = V)
    BY SpreadIs
  <2> QED BY <1>1, <2>1 DEF Found
<1>3. s = [V \in SUBSET Id |-> Found(s, V)]
  BY <1>1, <1>2
<1> QED BY <1>1, <1>3 DEF IsSearch

LEMMA SearchReaches ==
    ASSUME Graph, NEW s, IsSearch(s), NEW V \in SUBSET Id
    PROVE  s[V] = Reach(V)
<1> DEFINE Wrong == {x \in SUBSET Id : s[x] # Reach(x)}
           D == {Stored \ x : x \in Wrong}
<1> SUFFICES ASSUME Wrong # {} PROVE FALSE
  OBVIOUS
<1>1. PICK m \in D : \A t \in D : ~ (t \subseteq m /\ t # m)
  <2>1. D \subseteq SUBSET Stored /\ D # {} /\ IsFiniteSet(Stored)
    BY DEF Graph
  <2> HIDE DEF D
  <2> QED BY <2>1, Smallest
<1>2. PICK x \in Wrong : m = Stored \ x
  OBVIOUS
<1>3. x \in SUBSET Id /\ s[x] # Reach(x)
  OBVIOUS
<1>4. \A y \in SUBSET Id : Stored \ y \subseteq m /\ Stored \ y # m => s[y] = Reach(y)
  BY <1>1
<1> HIDE DEF D, Wrong
<1>5. s[x] = Found(s, x)
  BY <1>3 DEF IsSearch
<1>6. PICK y : y = Spread(x)
  OBVIOUS
<1>7. y \in SUBSET Id /\ x \subseteq y /\ y \ x \subseteq Stored /\ Reach(y) = Reach(x)
      /\ (y = x => Reach(x) = x)
  BY <1>3, <1>6, SpreadIs
<1>8. CASE y = x
  BY <1>3, <1>5, <1>6, <1>7, <1>8 DEF Found
<1>9. CASE y # x
  <2>1. Stored \ y \subseteq m /\ Stored \ y # m
    BY <1>2, <1>7, <1>9
  <2>2. s[y] = Reach(y)
    BY <1>4, <1>7, <2>1
  <2> QED BY <1>3, <1>5, <1>6, <1>7, <1>9, <2>2 DEF Found
<1> QED BY <1>8, <1>9

LEMMA DescendantsAre ==
    ASSUME Graph, NEW id \in Id
    PROVE  Descendants(id) = Reach({id}) \ {id}
<1> DEFINE Is(s) == s = [visited \in SUBSET Id |->
                            LET next == visited \cup UNION {Children(i) : i \in visited}
                            IN  IF next = visited THEN visited ELSE s[next]]
<1>1. Descendants(id) = (CHOOSE s : Is(s))[{id}] \ {id}
  BY DEF Descendants
<1>2. ASSUME NEW s PROVE Is(s) <=> IsSearch(s)
  BY DEF IsSearch, Found, Spread
<1> HIDE DEF Is
<1>3. PICK s : s = CHOOSE t : Is(t)
  OBVIOUS
<1>4. Is(s)
  BY <1>2, <1>3, SearchExists
<1>5. s[{id}] = Reach({id})
  BY <1>2, <1>4, SearchReaches
<1> QED BY <1>1, <1>3, <1>5

-----------------------------------------------------------------------------
(* The walks agree. *)

\* What a walk up from c meets, a search down from there finds c.
LEMMA WalkComesDown ==
    ASSUME Graph, NEW v \in SUBSET Id, NEW c \in Node, NEW y, y \in On(v, c),
           NEW S, Closed(S), y \in S
    PROVE  c \in S
<1> DEFINE Bad == {b \in (SUBSET Id) \X Node : y \in On(b[1], b[2]) /\ b[2] \notin S}
<1> SUFFICES ASSUME Bad # {} PROVE FALSE
  <2>1. <<v, c>> \notin Bad => c \in S
    OBVIOUS
  <2> QED BY <2>1
<1>1. PICK x \in SUBSET Id, d \in Node :
          <<x, d>> \in Bad /\ (~ Stops(x, d) => <<x \cup {d}, Parent(d)>> \notin Bad)
  <2>1. Bad \subseteq (SUBSET Id) \X Node
    OBVIOUS
  <2> HIDE DEF Bad
  <2> QED BY <2>1, LeastLeft
<1>2. y \in On(x, d) /\ d \notin S
  BY <1>1
<1>3. PICK z, p : z = x \cup {d} /\ p = Parent(d)
  OBVIOUS
<1>4. ~ Stops(x, d) /\ y \in On(z, p)
  BY <1>2, <1>3, OnIs
<1>5. z \in SUBSET Id /\ p \in Node /\ d \in Stored
  BY <1>3, <1>4, FewerLeft
<1>6. p \in S
  <2>1. <<z, p>> \notin Bad /\ <<z, p>> \in (SUBSET Id) \X Node
    BY <1>1, <1>3, <1>4, <1>5
  <2> QED BY <1>4, <2>1
<1> HIDE DEF Bad
<1>7. p \notin z
  BY <1>4, <1>5, OnIs DEF Stops
<1>8. d \in Children(p)
  BY <1>3, <1>5, <1>7 DEF Children, Parent
<1> QED BY <1>2, <1>6, <1>8 DEF Closed

\* A walk does not come back to a node whose parent it started from.
LEMMA WalkPasses ==
    ASSUME Graph, NEW v \in SUBSET Id, NEW c \in Node, NEW y, y \in On(v, c),
           NEW k \in Id, k # y, Parent(k) \in v
    PROVE  y \in On(v \cup {k}, c)
<1> DEFINE Bad == {b \in (SUBSET Id) \X Node : /\ y \in On(b[1], b[2]) /\ Parent(k) \in b[1]
                                              /\ y \notin On(b[1] \cup {k}, b[2])}
<1> SUFFICES ASSUME Bad # {} PROVE FALSE
  <2>1. <<v, c>> \notin Bad => y \in On(v \cup {k}, c)
    OBVIOUS
  <2> QED BY <2>1
<1>1. PICK x \in SUBSET Id, d \in Node :
          <<x, d>> \in Bad /\ (~ Stops(x, d) => <<x \cup {d}, Parent(d)>> \notin Bad)
  <2>1. Bad \subseteq (SUBSET Id) \X Node
    OBVIOUS
  <2> HIDE DEF Bad
  <2> QED BY <2>1, LeastLeft
<1>2. y \in On(x, d) /\ Parent(k) \in x /\ y \notin On(x \cup {k}, d)
  BY <1>1
<1>3. PICK z, p : z = x \cup {d} /\ p = Parent(d)
  OBVIOUS
<1>4. ~ Stops(x, d) /\ (y = d \/ y \in On(z, p))
  BY <1>2, <1>3, OnIs
<1>5. z \in SUBSET Id /\ p \in Node /\ d \in Stored
  BY <1>3, <1>4, FewerLeft
<1>6. x \cup {k} \in SUBSET Id
  OBVIOUS
<1>7. CASE y = d
  <2>1. ~ Stops(x \cup {k}, d)
    BY <1>4, <1>7 DEF Stops
  <2> QED BY <1>2, <1>6, <1>7, <2>1, OnIs
<1>8. CASE y # d
  <2>1. y \in On(z, p)
    BY <1>4, <1>8
  <2>2. d # k
    <3>1. ASSUME d = k PROVE FALSE
      <4>1. Stops(z, p)
        BY <1>2, <1>3, <3>1 DEF Stops
      <4>2. On(z, p) = {}
        BY <1>5, <4>1, OnIs
      <4> QED BY <2>1, <4>2
    <3> QED BY <3>1
  <2>3. y \in On(z \cup {k}, p)
    <3>1. <<z, p>> \notin Bad /\ <<z, p>> \in (SUBSET Id) \X Node
      BY <1>1, <1>3, <1>4, <1>5
    <3> QED BY <1>2, <1>3, <2>1, <3>1
  <2> HIDE DEF Bad
  <2>4. ~ Stops(x \cup {k}, d)
    BY <1>4, <2>2 DEF Stops
  <2>5. z \cup {k} = (x \cup {k}) \cup {d}
    BY <1>3
  <2>6. On(x \cup {k}, d) = {d} \cup On(z \cup {k}, p)
    BY <1>3, <1>6, <2>4, <2>5, OnIs
  <2> QED BY <1>2, <2>3, <2>6
<1> QED BY <1>7, <1>8

LEMMA WalksMeet ==
    ASSUME Graph, NEW x \in Stored, NEW y \in Stored
    PROVE  y \in On({x}, Parent(x)) <=> x \in Descendants(y)
<1>1. /\ x \in Id /\ y \in Id /\ Parent(x) \in Node /\ Parent(y) \in Node
      /\ {x} \in SUBSET Id
  BY DEF Graph
<1>2. Descendants(y) = Reach({y}) \ {y}
  BY <1>1, DescendantsAre
<1>3. ASSUME y \in On({x}, Parent(x)) PROVE x \in Descendants(y)
  <2>1. ~ Stops({x}, Parent(x))
    BY <1>1, <1>3, OnIs
  <2>2. x \in Children(Parent(x))
    BY <2>1 DEF Stops, Children, Parent
  <2>3. ASSUME NEW S \in SUBSET Id, {y} \subseteq S, Closed(S) PROVE x \in S
    <3>1. Parent(x) \in S
      BY <1>1, <1>3, <2>3, WalkComesDown
    <3> QED BY <2>2, <2>3, <3>1 DEF Closed
  <2>4. x \in Reach({y})
    BY <1>1, <2>3 DEF Reach
  <2>5. y # x
    <3>1. Way({x}, Parent(x), Walk[{x}][Parent(x)])
      BY <1>1, WalkIsWay
    <3> QED BY <1>3, <3>1 DEF Way, On
  <2> QED BY <1>2, <2>4, <2>5
<1>4. ASSUME x \in Descendants(y) PROVE y \in On({x}, Parent(x))
  <2>1. PICK S : S = {z \in Stored : z = y \/ y \in On({z}, Parent(z))}
    OBVIOUS
  <2>2. ASSUME NEW z \in S, NEW k \in Children(z) PROVE k \in S
    <3>1. z \in Stored /\ k \in Stored /\ Parent(k) = z /\ k # z
      BY <2>1, <2>2 DEF Children, Parent
    <3>2. z \in Id /\ k \in Id /\ Parent(z) \in Node /\ z \in Node /\ {k} \in SUBSET Id /\ {z} \in SUBSET Id
      BY <3>1 DEF Graph, Node
    <3>3. ~ Stops({k}, z)
      BY <3>1 DEF Stops
    <3>4. On({k}, z) = {z} \cup On({k} \cup {z}, Parent(z))
      BY <3>2, <3>3, OnIs
    <3>5. CASE k = y
      BY <2>1, <3>1, <3>5
    <3>6. CASE k # y /\ z = y
      BY <2>1, <3>1, <3>4, <3>6
    <3>7. CASE k # y /\ z # y
      <4>1. y \in On({z}, Parent(z))
        BY <2>1, <3>7
      <4>2. y \in On({z} \cup {k}, Parent(z))
        BY <3>1, <3>2, <3>7, <4>1, WalkPasses
      <4>3. {z} \cup {k} = {k} \cup {z}
        OBVIOUS
      <4>4. y \in On({k}, z)
        BY <3>4, <4>2, <4>3
      <4> QED BY <2>1, <3>1, <4>4
    <3> QED BY <3>5, <3>6, <3>7
  <2>3. Closed(S) /\ S \in SUBSET Id /\ {y} \subseteq S
    BY <2>1, <2>2 DEF Closed, Graph
  <2>4. x \in Reach({y}) /\ x # y
    BY <1>2, <1>4
  <2>5. x \in S
    BY <2>3, <2>4 DEF Reach
  <2> QED BY <2>1, <2>4, <2>5
<1> QED BY <1>3, <1>4

\* The chain to a node is its way up, the other way round, and the node.
LEMMA ChainIsPath ==
    ASSUME Graph, NEW x \in Stored, NEW chain, chain = LineageOf(x)
    PROVE  /\ chain[Len(chain)] = x
           /\ \A i, j \in DOMAIN chain : chain[i] = chain[j] => i = j
           /\ \A i \in 1 .. Len(chain) - 1 : board[chain[i + 1]].parent = chain[i]
<1>1. x \in Id /\ Parent(x) \in Node /\ {x} \in SUBSET Id
  BY DEF Graph
<1>2. PICK s : s = Walk[{x}][Parent(x)]
  OBVIOUS
<1>3. Way({x}, Parent(x), s)
  BY <1>1, <1>2, WalkIsWay
<1>4. PICK n \in Nat : n = Len(s) /\ DOMAIN s = 1 .. n
  BY <1>3 DEF Way
<1>5. Ancestors(x) = s
  BY <1>2 DEF Ancestors, Parent
<1>6. chain = [i \in 1 .. n + 1 |-> IF i = n + 1 THEN x ELSE s[n + 1 - i]]
  BY <1>4, <1>5 DEF LineageOf
<1>7. DOMAIN chain = 1 .. n + 1 /\ chain[n + 1] = x /\ \A i \in 1 .. n : chain[i] = s[n + 1 - i]
  BY <1>6
<1>8. Len(chain) = n + 1
  BY <1>6
<1>9. \A i \in 1 .. n : s[i] # x
  BY <1>3, <1>4 DEF Way
<1>10. \A i, j \in 1 .. n : s[i] = s[j] => i = j
  BY <1>3, <1>4 DEF Way
<1>11. ASSUME NEW i \in 1 .. n + 1, NEW j \in 1 .. n + 1, chain[i] = chain[j] PROVE i = j
  <2>1. CASE i = n + 1 /\ j # n + 1
    <3>1. n + 1 - j \in 1 .. n /\ j \in 1 .. n
      BY <2>1
    <3> QED BY <1>7, <1>9, <1>11, <2>1, <3>1
  <2>2. CASE i # n + 1 /\ j = n + 1
    <3>1. n + 1 - i \in 1 .. n /\ i \in 1 .. n
      BY <2>2
    <3> QED BY <1>7, <1>9, <1>11, <2>2, <3>1
  <2>3. CASE i # n + 1 /\ j # n + 1
    <3>1. n + 1 - i \in 1 .. n /\ i \in 1 .. n /\ n + 1 - j \in 1 .. n /\ j \in 1 .. n
      BY <2>3
    <3>2. n + 1 - i = n + 1 - j
      BY <1>7, <1>10, <1>11, <3>1
    <3> QED BY <3>1, <3>2
  <2> QED BY <2>1, <2>2, <2>3
<1>12. ASSUME NEW i \in 1 .. n PROVE Parent(chain[i + 1]) = chain[i]
  <2>1. CASE i = n
    <3>1. n >= 1 /\ s # << >> /\ s[1] = Parent(x)
      BY <1>3, <1>4, <2>1 DEF Way
    <3> QED BY <1>7, <2>1, <3>1
  <2>2. CASE i # n
    <3>1. PICK k \in 1 .. n - 1 : k = n - i
      BY <2>2
    <3>2. Parent(s[k]) = s[k + 1]
      BY <1>3, <1>4, <3>1 DEF Way
    <3>3. i + 1 \in 1 .. n /\ n + 1 - i = k + 1 /\ n + 1 - (i + 1) = k
      BY <2>2, <3>1
    <3>4. chain[i + 1] = s[k] /\ chain[i] = s[k + 1]
      BY <1>7, <3>3
    <3> QED BY <3>2, <3>4
  <2> QED BY <2>1, <2>2
<1>13. Len(chain) - 1 = n
  BY <1>8
<1> QED BY <1>7, <1>8, <1>11, <1>12, <1>13 DEF Parent

-----------------------------------------------------------------------------
(* Every board is a graph. *)

LEMMA FiniteBoard == Spec => []IsFiniteSet(Stored)
<1>1. Init => IsFiniteSet(Stored)
  BY FS_EmptySet DEF Init, Stored
<1>2. ASSUME IsFiniteSet(Stored), [Next]_vars PROVE IsFiniteSet(Stored)'
  <2>1. CASE board' = board
    BY <1>2, <2>1 DEF Stored
  <2>2. ASSUME NEW id, NEW artifact, Lands(id, artifact) PROVE IsFiniteSet(Stored)'
    <3>1. Stored' = Stored \cup {id}
      BY <2>2, LandsOne
    <3>2. IsFiniteSet(Stored \cup {id})
      BY <1>2, FS_AddElement
    <3> QED BY <3>1, <3>2
  <2> QED BY <1>2, <2>1, <2>2, BoardSteps
<1> QED BY <1>1, <1>2, PTL DEF Spec

\* The two walks agree on every graph that any agents make, however malformed, and the chain
\* to a node is a path without repetition that ends in it (graph.py, ancestors, descendants
\* and lineage_of).
THEOREM TraversalsAlwaysAgree == Spec => []TraversalsAgree
<1>1. ASSUME TypeOK, IsFiniteSet(Stored) PROVE TraversalsAgree
  <2>1. Graph
    BY <1>1 DEF Graph, TypeOK, Artifact, Node, Parent, Stored
  <2>2. ASSUME NEW x \in Stored, NEW y \in Stored
        PROVE  (\E i \in DOMAIN Ancestors(x) : Ancestors(x)[i] = y) <=> x \in Descendants(y)
    <3>1. Ancestors(x) = Walk[{x}][Parent(x)]
      BY DEF Ancestors, Parent
    <3>2. (\E i \in DOMAIN Ancestors(x) : Ancestors(x)[i] = y) <=> y \in On({x}, Parent(x))
      BY <3>1 DEF On
    <3> QED BY <2>1, <3>2, WalksMeet
  <2> QED BY <2>1, <2>2, ChainIsPath DEF TraversalsAgree
<1> QED BY <1>1, FiniteBoard, TypeCorrect, PTL
=============================================================================
