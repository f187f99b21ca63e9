---------------------------- MODULE SkillsProofs ----------------------------
(***************************************************************************)
(* Theorems about Skills, for any number of curators, versions, taints and *)
(* uses.  Every row and every copy is a good skill: what a put writes is   *)
(* made from a good copy, however stale, and a good skill stays good while *)
(* the store, the statistics and the histories only grow and no version    *)
(* changes what it says unless it is written a second time.                *)
(***************************************************************************)
EXTENDS Skills, TLAPS

\* The lineage and the trust tell the truth, and they kept the skill out of retrieval.
Clean(s) ==
    /\ s.consumed = s.lineage
    /\ s.trust = IF s.origin = "distilled" THEN "builtin" ELSE s.origin
    /\ s.status \in Retrievable => AgentCreated(s) /\ s.lineage = {}

Rooted(s) ==
    s.parent # 0 =>
        /\ s.parent \in Stored /\ s.parent < s.version
        /\ s.parent \notin rewritten =>
            /\ store[s.parent].body = s.improved
            /\ store[s.parent].origin = s.origin /\ store[s.parent].consumed = s.consumed

\* All there is of a version, the row and the copies of it, is of one text.
Same(s) ==
    s.version \notin rewritten =>
        /\ store[s.version].body = s.body
        /\ store[s.version].origin = s.origin /\ store[s.version].consumed = s.consumed

Earned(s) ==
    \/ s.version \in restored
    \/ /\ s.status = "candidate" => stats[s.version].uses >= 1
       /\ s.status = "active" => stats[s.version].uses >= PromoteMinUses

Good(s) == s.version \in Stored /\ Clean(s) /\ Rooted(s) /\ Same(s) /\ Earned(s)

\* What a step may not take from a version: its row, that it was rewritten, and unless it
\* was, what it says.
Kept ==
    /\ Stored \subseteq Stored' /\ restored \subseteq restored' /\ rewritten \subseteq rewritten'
    /\ \A v \in Stored : v \notin rewritten' =>
            /\ store'[v].body = store[v].body
            /\ store'[v].origin = store[v].origin /\ store'[v].consumed = store[v].consumed

\* The inductive invariant.
Inv == TypeOK /\ \A s \in Rows \cup Copies : Good(s)

-----------------------------------------------------------------------------

\* No copy is the record of a version: versions start at 1.
LEMMA NoCopyIsNoSkill == NoCopy \notin Skill
<1>1. SUFFICES ASSUME NoCopy \in Skill PROVE FALSE
  OBVIOUS
<1>2. NoCopy.version \in Version
  BY <1>1 DEF Skill
<1>3. NoCopy.version = 0
  BY DEF NoCopy
<1> QED
  BY <1>2, <1>3, BoundAssumption DEF Version

\* A copy that a curator holds is a skill, and one of Copies.
LEMMA Held ==
    ASSUME TypeOK, NEW c \in Curator, copy[c] # NoCopy
    PROVE  copy[c] \in Skill /\ copy[c] \in Copies
BY DEF TypeOK, Copies

\* Writing a skill and letting go of a copy keeps the types.
LEMMA PutTypes ==
    ASSUME TypeOK, NEW s \in Skill, store' = Replaced(s)
    PROVE  /\ Stored' = Stored \cup {s.version}
           /\ Stored' \subseteq Version
           /\ \A v \in Stored' : store'[v] \in Skill /\ store'[v].version = v
           /\ Rows' \subseteq Rows \cup {s}
<1>1. Stored' = Stored \cup {s.version} /\ s.version \in Version
  BY DEF Stored, Replaced, Skill
<1>2. \A v \in Stored' : store'[v] = IF v = s.version THEN s ELSE store[v]
  BY <1>1 DEF Stored, Replaced
<1>3. \A v \in Stored' : store'[v] \in Skill /\ store'[v].version = v
  BY <1>1, <1>2 DEF TypeOK
<1>4. Rows' \subseteq Rows \cup {s}
  BY <1>1, <1>2 DEF Rows
<1> QED
  BY <1>1, <1>3, <1>4 DEF TypeOK

\* A good skill stays good while versions are kept and uses only grow.
LEMMA GoodStays ==
    ASSUME TypeOK, TypeOK', NEW s \in Skill, Good(s), Kept,
           \A v \in Version : stats[v].uses <= stats'[v].uses
    PROVE  Good(s)'
<1>1. Clean(s)' /\ s.version \in Stored'
  BY DEF Good, Clean, AgentCreated, Kept
<1>2. Rooted(s)' /\ Same(s)'
  BY DEF Good, Rooted, Same, Kept
<1>3. Earned(s)'
  <2>1. s.version \in Version
    BY DEF Skill
  <2>2. stats[s.version].uses \in Int /\ stats'[s.version].uses \in Int
    BY <2>1, BoundAssumption DEF TypeOK, UsageStats
  <2>3. stats[s.version].uses <= stats'[s.version].uses
    BY <2>1
  <2> QED
    BY <2>2, <2>3 DEF Good, Earned, PromoteMinUses, Kept
<1> QED
  BY <1>1, <1>2, <1>3 DEF Good

\* A step whose new rows and copies are old ones, or one good skill, keeps Inv.
LEMMA GoodStep ==
    ASSUME Inv, TypeOK', NEW New \in SUBSET Skill,
           \A s \in New : Good(s)',
           Rows' \cup Copies' \subseteq Rows \cup Copies \cup New, Kept,
           \A v \in Version : stats[v].uses <= stats'[v].uses
    PROVE  Inv'
<1> SUFFICES ASSUME NEW s \in Rows' \cup Copies' PROVE Good(s)'
  BY DEF Inv
<1>1. CASE s \in New
  BY <1>1
<1>2. CASE s \in Rows \cup Copies
  <2>1. s \in Skill
    BY <1>2 DEF Inv, TypeOK, Rows, Copies
  <2>2. Good(s) /\ TypeOK
    BY <1>2 DEF Inv
  <2> QED
    BY <2>1, <2>2, GoodStays
<1> QED
  BY <1>1, <1>2

\* Statistics do not shrink when they do not change.
LEMMA StatsStay ==
    ASSUME TypeOK, stats' = stats
    PROVE  \A v \in Version : stats[v].uses <= stats'[v].uses
BY BoundAssumption DEF TypeOK, UsageStats

-----------------------------------------------------------------------------
(* What each transition of a copy puts is a skill. *)

LEMMA PutSkill ==
    ASSUME TypeOK, NEW c \in Curator, NEW s \in Skill, Put(c, s)
    PROVE  /\ Stored' = Stored \cup {s.version}
           /\ Stored' \subseteq Version
           /\ \A v \in Stored' : store'[v] \in Skill /\ store'[v].version = v
           /\ copy' \in [Curator -> Skill \cup {NoCopy}]
           /\ Rows' \subseteq Rows \cup {s}
           /\ Copies' \subseteq Copies
<1>1. store' = Replaced(s) /\ copy' = [copy EXCEPT ![c] = NoCopy]
  BY DEF Put
<1>2. copy' \in [Curator -> Skill \cup {NoCopy}] /\ Copies' \subseteq Copies
  BY <1>1 DEF TypeOK, Copies
<1> QED
  BY <1>1, <1>2, PutTypes

LEMMA StatusPut ==
    ASSUME TypeOK, NEW c \in Curator, copy[c] # NoCopy, NEW to \in Status
    PROVE  [copy[c] EXCEPT !.status = to] \in Skill
BY Held DEF Skill

LEMMA ImprovedPut ==
    ASSUME TypeOK, NEW c \in Curator, copy[c] # NoCopy, NEW body \in Body,
           copy[c].version < MaxVersion
    PROVE  [copy[c] EXCEPT !.body = body, !.version = @ + 1, !.parent = copy[c].version,
                           !.status = "draft", !.pinned = FALSE,
                           !.improved = copy[c].body] \in Skill
<1>1. copy[c] \in Skill
  BY Held
<1>2. copy[c].version + 1 \in Version /\ copy[c].version \in 0 .. MaxVersion
  BY <1>1, BoundAssumption DEF Skill, Version
<1> QED
  BY <1>1, <1>2 DEF Skill, Status

LEMMA DraftSkill ==
    ASSUME NEW origin \in {"distilled"} \cup Trust, NEW trust \in Trust,
           NEW lineage \in SUBSET Taint, NEW body \in Body
    PROVE  Draft(origin, trust, lineage, body) \in Skill
BY BoundAssumption DEF Draft, Skill, Version, Status

\* The two ways a version comes to be.
LEMMA Created ==
    ASSUME TypeOK, NEW body \in Body,
           \/ \E turn \in Turn, lineages \in SUBSET SUBSET Taint : Distil(turn, lineages, body)
           \/ \E trust \in Trust : Import(trust, body)
    PROVE  \E origin \in {"distilled"} \cup Trust, trust \in Trust, lineage \in SUBSET Taint :
               /\ Create(Draft(origin, trust, lineage, body))
               /\ Draft(origin, trust, lineage, body) \in Skill
               /\ trust = IF origin = "distilled" THEN "builtin" ELSE origin
<1>1. CASE \E turn \in Turn, lineages \in SUBSET SUBSET Taint : Distil(turn, lineages, body)
  <2>1. PICK lineages \in SUBSET SUBSET Taint :
             Create(Draft("distilled", "builtin", UNION lineages, body))
    BY <1>1 DEF Distil, InheritTurnLineage
  <2>2. "builtin" \in Trust /\ UNION lineages \in SUBSET Taint
    BY DEF Trust
  <2> QED
    BY <2>1, <2>2, DraftSkill
<1>2. CASE \E trust \in Trust : Import(trust, body)
  <2>1. PICK trust \in Trust, lineage \in SUBSET Taint :
             Create(Draft(trust, trust, lineage, body))
    BY <1>2, TaintAssumption DEF Import
  <2>2. trust # "distilled"
    BY DEF Trust
  <2> QED
    BY <2>1, <2>2, DraftSkill
<1> QED
  BY <1>1, <1>2

-----------------------------------------------------------------------------
(* Type correctness. *)

LEMMA TypeInit == Init => TypeOK
BY BoundAssumption DEF Init, TypeOK, Stored, UsageStats, Version

LEMMA TypeStep == TypeOK /\ [Next]_vars => TypeOK'
<1> SUFFICES ASSUME TypeOK, [Next]_vars PROVE TypeOK'
  OBVIOUS
<1>1. CASE UNCHANGED vars
  BY <1>1 DEF vars, history, TypeOK, Stored
<1>2. ASSUME NEW body \in Body,
             \/ \E turn \in Turn, lineages \in SUBSET SUBSET Taint : Distil(turn, lineages, body)
             \/ \E trust \in Trust : Import(trust, body)
      PROVE  TypeOK'
  <2>1. PICK origin \in {"distilled"} \cup Trust, trust \in Trust, lineage \in SUBSET Taint :
             /\ Create(Draft(origin, trust, lineage, body))
             /\ Draft(origin, trust, lineage, body) \in Skill
    BY <1>2, Created
  <2>2. /\ Stored' \subseteq Version
        /\ \A v \in Stored' : store'[v] \in Skill /\ store'[v].version = v
    BY <2>1, PutTypes DEF Create
  <2>3. created' \in 0 .. MaxNew /\ rewritten' \subseteq Version
    BY <2>1, BoundAssumption DEF Create, Rewrites, Stored, TypeOK
  <2> QED
    BY <2>1, <2>2, <2>3 DEF Create, TypeOK
<1>3. ASSUME NEW c \in Curator, Curate(c) PROVE TypeOK'
  <2>1. CASE (\E v \in Version : Get(c, v)) \/ LetGo(c)
    BY <2>1 DEF Get, LetGo, history, TypeOK, Stored
  <2>2. ASSUME NEW s \in Skill, Put(c, s), restored' \subseteq Version,
               rewritten' \subseteq Version, UNCHANGED <<stats, created, uses>>
        PROVE  TypeOK'
    BY <2>2, PutSkill DEF TypeOK
  <2>3. CASE PromoteOnReuse(c)
    BY <2>2, <2>3, StatusPut DEF PromoteOnReuse, history, Status, TypeOK
  <2>4. CASE PromoteOnSuccess(c)
    BY <2>2, <2>4, StatusPut DEF PromoteOnSuccess, history, Status, TypeOK
  <2>5. CASE \E body \in Body : Improve(c, body)
    BY <2>2, <2>5, ImprovedPut DEF Improve, Rewrites, Stored, TypeOK
  <2>6. CASE Archive(c)
    BY <2>2, <2>6, StatusPut DEF Archive, history, Status, TypeOK
  <2>7. CASE \E to \in Status : Restore(c, to)
    <3>1. PICK to \in Status : Restore(c, to)
      BY <2>7
    <3>2. copy[c].version \in Version
      BY <3>1, Held DEF Restore, Skill
    <3> QED
      BY <2>2, <3>1, <3>2, StatusPut DEF Restore, TypeOK
  <2> QED
    BY <1>3, <2>1, <2>3, <2>4, <2>5, <2>6, <2>7 DEF Curate
<1>4. ASSUME NEW v \in Version, NEW success \in BOOLEAN, Use(v, success) PROVE TypeOK'
  <2>1. uses' = uses + 1 /\ uses' \in 0 .. MaxUses /\ uses \in Nat
    BY <1>4, BoundAssumption DEF Use, TypeOK
  <2>2. \A w \in Version : /\ stats[w].uses \in Nat /\ stats[w].successes \in Nat
                           /\ stats[w].successes <= stats[w].uses /\ stats[w].uses <= uses
    BY BoundAssumption DEF TypeOK, UsageStats
  <2>3. PICK n \in {0, 1} :
           stats' = [stats EXCEPT ![v] = [uses |-> stats[v].uses + 1,
                                          successes |-> stats[v].successes + n]]
    BY <1>4 DEF Use, Recorded
  <2>4. \A w \in Version : /\ stats'[w] \in UsageStats
                           /\ stats'[w].successes <= stats'[w].uses
                           /\ stats'[w].uses <= uses'
    BY <2>1, <2>2, <2>3, BoundAssumption DEF TypeOK, UsageStats
  <2>5. stats' \in [Version -> UsageStats]
    BY <2>3, <2>4 DEF TypeOK
  <2> QED
    BY <1>4, <2>1, <2>4, <2>5 DEF Use, history, TypeOK, Stored
<1>5. ASSUME NEW v \in Version, StoreArchive(v) \/ Pin(v) PROVE TypeOK'
  <2>1. v \in Stored /\ store[v] \in Skill /\ store[v].version = v
    BY <1>5 DEF StoreArchive, Pin, TypeOK
  <2>2. PICK s \in Skill : s.version = v /\ store' = [store EXCEPT ![v] = s]
    <3>1. CASE StoreArchive(v)
      <4>1. [store[v] EXCEPT !.status = "archived"] \in Skill
        BY <2>1 DEF Skill, Status
      <4> QED
        BY <2>1, <3>1, <4>1 DEF StoreArchive, Skill
    <3>2. CASE Pin(v)
      <4>1. [store[v] EXCEPT !.pinned = ~ @] \in Skill
        BY <2>1 DEF Skill
      <4> QED
        BY <2>1, <3>2, <4>1 DEF Pin, Skill
    <3> QED
      BY <1>5, <3>1, <3>2
  <2>3. Stored' = Stored
    BY <2>2 DEF Stored
  <2>4. \A w \in Stored : store'[w] = IF w = v THEN s ELSE store[w]
    BY <2>2 DEF Stored
  <2>5. \A w \in Stored : store'[w] \in Skill /\ store'[w].version = w
    BY <2>2, <2>4 DEF TypeOK
  <2> QED
    BY <1>5, <2>3, <2>5 DEF StoreArchive, Pin, history, TypeOK
<1> QED
  BY <1>1, <1>2, <1>3, <1>4, <1>5 DEF Next

\* A version is stored under its own number and no version has been used more
\* often than any was, whatever is distilled, imported, moved or archived.
THEOREM TypeCorrect == Spec => []TypeOK
<1> QED
  BY TypeInit, TypeStep, PTL DEF Spec

-----------------------------------------------------------------------------
(* The invariant. *)

LEMMA InvInit == Init => Inv
<1> SUFFICES ASSUME Init PROVE Inv
  OBVIOUS
<1>1. Rows = {} /\ Copies = {}
  BY DEF Init, Rows, Stored, Copies
<1> QED
  BY <1>1, TypeInit DEF Inv, Good

\* The copy a transition starts from is good.
LEMMA HeldIsGood ==
    ASSUME Inv, NEW c \in Curator, copy[c] # NoCopy
    PROVE  copy[c] \in Skill /\ Good(copy[c])
BY Held DEF Inv

\* What a version says changes only when it is written a second time.
LEMMA PutKeeps ==
    ASSUME TypeOK, NEW s \in Skill, store' = Replaced(s), restored \subseteq restored',
           \/ rewritten' = rewritten /\ s.version \in Stored /\ Same(s)
           \/ Rewrites(s.version)
    PROVE  Kept
<1>1. Stored' = Stored \cup {s.version}
  BY PutTypes
<1>2. \A v \in Stored : store'[v] = IF v = s.version THEN s ELSE store[v]
  BY DEF Stored, Replaced
<1>3. ASSUME NEW v \in Stored, v \notin rewritten'
      PROVE  /\ store'[v].body = store[v].body
             /\ store'[v].origin = store[v].origin /\ store'[v].consumed = store[v].consumed
  BY <1>2, <1>3 DEF Same, Rewrites
<1> QED
  BY <1>1, <1>3 DEF Kept, Rewrites

\* The row that was put says what was put.
LEMMA PutIsSame ==
    ASSUME TypeOK, NEW s \in Skill, store' = Replaced(s)
    PROVE  Same(s)'
<1>1. store'[s.version] = s
  BY DEF Replaced
<1> QED
  BY <1>1 DEF Same

\* A curator that puts a good skill keeps the invariant.
LEMMA GoodPut ==
    ASSUME Inv, TypeOK', NEW c \in Curator, NEW s \in Skill, Put(c, s), Clean(s), Rooted(s),
           s.parent # s.version, Kept, Earned(s)', stats' = stats
    PROVE  Inv'
<1>1. /\ Stored' = Stored \cup {s.version}
      /\ Rows' \cup Copies' \subseteq Rows \cup Copies \cup {s}
  BY PutSkill DEF Inv
<1>2. Rooted(s)'
  BY DEF Rooted, Kept
<1>3. Clean(s)' /\ Same(s)'
  BY PutIsSame DEF Clean, AgentCreated, Inv, Put
<1>4. {s} \in SUBSET Skill /\ \A u \in {s} : Good(u)'
  BY <1>1, <1>2, <1>3 DEF Good
<1> QED
  BY <1>1, <1>4, GoodStep, StatsStay DEF Inv

LEMMA InvCreate ==
    ASSUME Inv, TypeOK', NEW body \in Body,
           \/ \E turn \in Turn, lineages \in SUBSET SUBSET Taint : Distil(turn, lineages, body)
           \/ \E trust \in Trust : Import(trust, body)
    PROVE  Inv'
<1>1. PICK origin \in {"distilled"} \cup Trust, trust \in Trust, lineage \in SUBSET Taint :
           /\ Create(Draft(origin, trust, lineage, body))
           /\ Draft(origin, trust, lineage, body) \in Skill
           /\ trust = IF origin = "distilled" THEN "builtin" ELSE origin
  BY Created DEF Inv
<1>2. PICK s \in Skill : s = Draft(origin, trust, lineage, body)
  BY <1>1
<1>3. /\ store' = Replaced(s) /\ Rewrites(s.version)
      /\ UNCHANGED <<copy, stats, restored>>
  BY <1>1, <1>2 DEF Create
<1>4. /\ Stored' = Stored \cup {s.version}
      /\ Rows' \subseteq Rows \cup {s}
      /\ Copies' = Copies
  BY <1>3, PutTypes DEF Inv, Copies
<1>5. Good(s)'
  <2>1. Clean(s)' /\ Rooted(s)' /\ Earned(s)'
    BY <1>1, <1>2 DEF Draft, Clean, Rooted, Earned, AgentCreated, Retrievable
  <2> QED
    BY <1>3, <1>4, <2>1, PutIsSame DEF Good, Inv
<1>6. Kept /\ Rows' \cup Copies' \subseteq Rows \cup Copies \cup {s}
  BY <1>3, <1>4, PutKeeps DEF Inv
<1>7. {s} \in SUBSET Skill /\ \A u \in {s} : Good(u)'
  BY <1>5
<1> QED
  BY <1>3, <1>6, <1>7, GoodStep, StatsStay DEF Inv

\* A transition that changes the status of a copy alone, as its gates allow.
LEMMA InvStatus ==
    ASSUME Inv, TypeOK', NEW c \in Curator, copy[c] # NoCopy, NEW to \in Status,
           Put(c, [copy[c] EXCEPT !.status = to]),
           stats' = stats, restored \subseteq restored', rewritten' = rewritten,
           to \in Retrievable => AgentCreated(copy[c]) /\ copy[c].lineage = {},
           \/ copy[c].version \in restored'
           \/ /\ to = "candidate" => stats[copy[c].version].uses >= 1
              /\ to = "active" => stats[copy[c].version].uses >= PromoteMinUses
    PROVE  Inv'
<1>1. copy[c] \in Skill /\ Good(copy[c])
  BY HeldIsGood
<1>2. PICK s \in Skill : s = [copy[c] EXCEPT !.status = to]
  BY StatusPut DEF Inv
<1>3. /\ s.version = copy[c].version /\ s.parent = copy[c].parent /\ s.trust = copy[c].trust
      /\ s.lineage = copy[c].lineage /\ s.consumed = copy[c].consumed /\ s.status = to
      /\ s.body = copy[c].body /\ s.origin = copy[c].origin /\ s.improved = copy[c].improved
  BY <1>1, <1>2 DEF Skill
<1>4. Clean(s) /\ Rooted(s) /\ Same(s) /\ s.version \in Stored
  BY <1>1, <1>3 DEF Good, Clean, Rooted, Same, AgentCreated
<1>5. Earned(s)'
  BY <1>3 DEF Earned
<1>6. Put(c, s)
  BY <1>2
<1>7. Kept
  BY <1>4, <1>6, PutKeeps DEF Put, Inv
<1>8. s.parent # s.version
  BY <1>1, <1>3, BoundAssumption DEF Good, Rooted, Skill, Version
<1> QED
  BY <1>4, <1>5, <1>6, <1>7, <1>8, GoodPut

LEMMA InvImprove ==
    ASSUME Inv, TypeOK', NEW c \in Curator, NEW body \in Body, Improve(c, body)
    PROVE  Inv'
<1>1. copy[c] \in Skill /\ Good(copy[c])
  BY HeldIsGood DEF Improve
<1>2. PICK s \in Skill :
           s = [copy[c] EXCEPT !.body = body, !.version = @ + 1, !.parent = copy[c].version,
                               !.status = "draft", !.pinned = FALSE, !.improved = copy[c].body]
  BY ImprovedPut DEF Improve, Inv
<1>3. /\ s.version = copy[c].version + 1 /\ s.parent = copy[c].version
      /\ s.lineage = copy[c].lineage /\ s.consumed = copy[c].consumed /\ s.status = "draft"
      /\ s.trust = copy[c].trust /\ s.origin = copy[c].origin /\ s.improved = copy[c].body
  BY <1>1, <1>2 DEF Skill
<1>4. Clean(s) /\ Earned(s)'
  BY <1>1, <1>3 DEF Good, Clean, Earned, Retrievable
<1>5. s.parent < s.version /\ Rooted(s)
  BY <1>1, <1>3 DEF Good, Rooted, Same, Skill, Version
<1>6. Put(c, s) /\ Rewrites(s.version)
  BY <1>2, <1>3 DEF Improve
<1>7. Kept
  BY <1>6, PutKeeps DEF Put, Improve, Inv
<1>8. s.parent # s.version
  BY <1>1, <1>3 DEF Skill, Version
<1> QED
  BY <1>4, <1>5, <1>6, <1>7, <1>8, GoodPut DEF Improve

LEMMA InvCurate ==
    ASSUME Inv, TypeOK', NEW c \in Curator, Curate(c)
    PROVE  Inv'
<1>1. CASE (\E v \in Version : Get(c, v)) \/ LetGo(c)
  <2>1. Rows' \cup Copies' \subseteq Rows \cup Copies
    BY <1>1 DEF Get, LetGo, Rows, Copies, Stored, Inv, TypeOK
  <2>2. UNCHANGED <<store, stats, history>>
    BY <1>1 DEF Get, LetGo
  <2>3. Kept /\ {} \in SUBSET Skill
    BY <2>2 DEF Kept, Stored, history
  <2> QED
    BY <2>1, <2>2, <2>3, GoodStep, StatsStay DEF Inv
<1>2. CASE PromoteOnReuse(c)
  <2>1. copy[c].version \in Version
    BY <1>2, HeldIsGood DEF PromoteOnReuse, Skill
  <2>2. stats[copy[c].version].uses >= 1
    BY <1>2, <2>1, BoundAssumption DEF PromoteOnReuse, Inv, TypeOK, UsageStats
  <2> QED
    BY <1>2, <2>2, InvStatus
       DEF PromoteOnReuse, history, AuthoredPromotable, Status, Retrievable
<1>3. CASE PromoteOnSuccess(c)
  BY <1>3, InvStatus
     DEF PromoteOnSuccess, history, MeetsActiveBar, AuthoredPromotable, Status,
         Retrievable
<1>4. CASE \E body \in Body : Improve(c, body)
  BY <1>4, InvImprove
<1>5. CASE Archive(c)
  BY <1>5, InvStatus DEF Archive, history, Status, Retrievable
<1>6. CASE \E to \in Status : Restore(c, to)
  BY <1>6, InvStatus DEF Restore
<1> QED
  BY <1>1, <1>2, <1>3, <1>4, <1>5, <1>6 DEF Curate

\* The archive and the pin leave what the invariant speaks of alone.
LEMMA InvUser ==
    ASSUME Inv, TypeOK', NEW v \in Version, StoreArchive(v) \/ Pin(v)
    PROVE  Inv'
<1>1. /\ v \in Stored /\ store[v] \in Skill /\ Good(store[v])
      /\ UNCHANGED <<copy, stats, history>>
      /\ Stored' = Stored
  BY DEF StoreArchive, Pin, Inv, TypeOK, Rows, Stored
<1>2. PICK s \in Skill : s = store'[v]
  BY <1>1 DEF TypeOK
<1>3. /\ s.consumed = store[v].consumed /\ s.lineage = store[v].lineage
      /\ s.version = store[v].version /\ s.parent = store[v].parent
      /\ s.trust = store[v].trust /\ s.status \in {store[v].status, "archived"}
      /\ s.body = store[v].body /\ s.origin = store[v].origin /\ s.improved = store[v].improved
  BY <1>1, <1>2 DEF StoreArchive, Pin, TypeOK, Stored, Skill
<1>4. Kept
  <2>1. \A w \in Stored \ {v} : store'[w] = store[w]
    BY <1>1 DEF StoreArchive, Pin, Stored
  <2> QED
    BY <1>1, <1>2, <1>3, <2>1 DEF Kept, history
<1>5. Good(s)'
  BY <1>1, <1>3, <1>4, BoundAssumption
     DEF Good, Clean, Rooted, Same, Earned, AgentCreated, Retrievable, Kept, history
<1>6. Rows' \cup Copies' \subseteq Rows \cup Copies \cup {s}
  BY <1>1, <1>2 DEF StoreArchive, Pin, Rows, Copies, Stored
<1>7. {s} \in SUBSET Skill /\ \A u \in {s} : Good(u)'
  BY <1>5
<1> QED
  BY <1>1, <1>4, <1>6, <1>7, GoodStep, StatsStay DEF Inv

LEMMA InvStep == Inv /\ [Next]_vars => Inv'
<1> SUFFICES ASSUME Inv, [Next]_vars PROVE Inv'
  OBVIOUS
<1>0. TypeOK'
  BY TypeStep DEF Inv
<1>1. CASE UNCHANGED vars
  BY <1>1 DEF vars, history, Inv, TypeOK, Rows, Copies, Stored, Good, Clean, Rooted, Same,
              Earned, AgentCreated
<1>2. ASSUME NEW v \in Version, NEW success \in BOOLEAN, Use(v, success) PROVE Inv'
  <2>1. UNCHANGED <<store, copy, history>>
    BY <1>2 DEF Use
  <2>2. \A w \in Version : stats[w].uses <= stats'[w].uses
    BY <1>2, BoundAssumption DEF Use, Recorded, Inv, TypeOK, UsageStats
  <2>3. /\ Rows' \cup Copies' \subseteq Rows \cup Copies \cup {}
        /\ Kept /\ {} \in SUBSET Skill
    BY <2>1 DEF Rows, Copies, Kept, Stored, history
  <2> QED
    BY <1>0, <2>2, <2>3, GoodStep
<1> QED
  BY <1>0, <1>1, <1>2, InvCreate, InvCurate, InvUser DEF Next

LEMMA InvHolds == Spec => []Inv
<1> QED
  BY InvInit, InvStep, PTL DEF Spec

\* Taint blocks promotion on every path: no sequence of distillations, imports,
\* improvements, archivals and restores, by any number of curators writing back
\* copies however stale, puts in retrieval a version made from anything tainted,
\* or one that was loaded at a tier below builtin.
THEOREM TaintNeverRetrieved == Spec => []TaintStaysOut
<1>1. Inv => TaintStaysOut
  BY DEF Inv, Good, Clean, AgentCreated, TaintStaysOut
<1> QED
  BY <1>1, InvHolds, PTL

\* The retrieval set grows with demonstrated value: what is in it was reused
\* as often as its status asks, or was restored.
THEOREM RetrievalEarned == Spec => []RetrievalIsEarned
<1>1. Inv => RetrievalIsEarned
  BY DEF Inv, Good, Earned, RetrievalIsEarned
<1> QED
  BY <1>1, InvHolds, PTL

\* What an improvement was made from is stored under the number it gives, with
\* its body, its origin and what it consumed, unless that number was distilled, imported or
\* improved to a second time.
THEOREM RevertPossible == Spec => []RevertHasTarget
<1>1. Inv => RevertHasTarget
  BY DEF Inv, Good, Rooted, RevertHasTarget
<1> QED
  BY <1>1, InvHolds, PTL
=============================================================================
