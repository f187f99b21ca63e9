------------------------------- MODULE Skills -------------------------------
(***************************************************************************)
(* The life of one skill name: curator/distil.py writes its first version, *)
(* curator/lifecycle.py moves and improves versions, and the whole rows    *)
(* are read from and written to SqliteSkillStore.  Every transition is a   *)
(* pure function of a copy; a curator fetches a copy, awaits, and puts     *)
(* back what the transition gave, while other curators and the user go on. *)
(***************************************************************************)
EXTENDS Integers

CONSTANTS
    Curator,        \* processes that move skills
    Body,           \* what a version may say
    Taint,          \* core/types.py Taint, as far as they are told apart
    MaxVersion,     \* bound: versions of the name
    MaxNew,         \* bound: distillations and imports under the name
    MaxUses         \* bound: recorded uses

ASSUME TaintAssumption == "foreign_skill" \in Taint
ASSUME BoundAssumption == MaxVersion \in Nat \ {0} /\ MaxNew \in Nat /\ MaxUses \in Nat

VARIABLES
    store,      \* the rows of the skills table, by version
    copy,       \* per curator: the version it fetched, or NoCopy
    stats,      \* UsageStats of each version, kept by the host
    restored,   \* history: versions brought back from the archive
    rewritten,  \* history: versions written a second time, as new, over the row that was there
    created,    \* distillations and imports so far
    uses        \* uses so far

history == <<restored, rewritten>>
vars == <<store, copy, stats, history, created, uses>>

-----------------------------------------------------------------------------

Version == 1 .. MaxVersion
Status == {"draft", "candidate", "active", "archived"}
Retrievable == {"candidate", "active"}
Trust == {"builtin", "verified", "community", "untrusted"}
MayContributeTools == {"builtin", "verified"}

\* The last three are history: the taints of everything the turns behind the body
\* consumed, whatever the lineage says of it; whether a curator distilled it or at which
\* tier it was loaded, whatever its trust says; and the body it was improved from.
Skill == [version : Version, body : Body, status : Status, trust : Trust,
          lineage : SUBSET Taint, parent : 0 .. MaxVersion, pinned : BOOLEAN,
          consumed : SUBSET Taint, origin : {"distilled"} \cup Trust, improved : Body]

NoCopy == [version |-> 0]

UsageStats == [uses : 0 .. MaxUses, successes : 0 .. MaxUses]

\* UsageStats.record
Recorded(s, success) ==
    [uses |-> s.uses + 1, successes |-> s.successes + (IF success THEN 1 ELSE 0)]

PromoteMinUses == 3

\* At least as many uses, and a success rate of at least one half.
MeetsActiveBar(s) == s.uses >= PromoteMinUses /\ 2 * s.successes >= s.uses

Init ==
    /\ store = [v \in {} |-> {}]
    /\ copy = [c \in Curator |-> NoCopy]
    /\ stats = [v \in Version |-> [uses |-> 0, successes |-> 0]]
    /\ restored = {} /\ rewritten = {}
    /\ created = 0
    /\ uses = 0

Stored == DOMAIN store

\* Fault: the rows are keyed by the name alone.
ReplacedByName(skill) ==
    [v \in Stored \cup {1} |-> IF v = 1 THEN skill ELSE store[v]]

\* SqliteSkillStore.put: INSERT OR REPLACE of the row (name, version).
Replaced(skill) ==
    [v \in Stored \cup {skill.version} |-> IF v = skill.version THEN skill ELSE store[v]]

\* Fault: an improved version takes the place of the one it improves.
PutInPlace(c, skill) ==
    /\ store' = [v \in (Stored \ {copy[c].version}) \cup {skill.version} |->
                    IF v = skill.version THEN skill ELSE store[v]]
    /\ copy' = [copy EXCEPT ![c] = NoCopy]

\* A curator puts what it made of its copy, and is done with it.
Put(c, skill) ==
    /\ store' = Replaced(skill)
    /\ copy' = [copy EXCEPT ![c] = NoCopy]

-----------------------------------------------------------------------------
(* The gates. *)

\* distil: the five checks a finished turn must pass, in this order.
Rejection(turn) ==
    CASE ~ turn.succeeded       -> "not_succeeded"
      [] turn.tool_calls < 2    -> "trivial"
      [] turn.near_duplicate    -> "near_duplicate"
      [] ~ turn.parameterisable -> "not_parameterisable"
      [] turn.injection         -> "injection_detected"
      [] OTHER                  -> "none"

\* inherit_turn_lineage: the union of what the turn consumed.
InheritTurnLineage(lineages) == UNION lineages

MayPromote(skill) == skill.lineage = {} /\ skill.status # "archived"

\* Fault: the gate looks at the status alone.
AuthoredPromotableUntested(skill, to) == to \in Retrievable => skill.status # "archived"

\* assert_authored_promotable and the assert_skill_promotion it delegates to.
AuthoredPromotable(skill, to) ==
    to \in Retrievable => skill.lineage = {} /\ MayPromote(skill)

AgentCreated(skill) == skill.trust = "builtin"

-----------------------------------------------------------------------------
(* Creation: both write version 1, whatever stands there. *)

Draft(origin, trust, lineage, body) ==
    [version |-> 1, body |-> body, status |-> "draft", trust |-> trust, lineage |-> lineage,
     parent |-> 0, pinned |-> FALSE, consumed |-> lineage, origin |-> origin, improved |-> body]

\* The row is a version of its own, not a later state of the one that was there.
Rewrites(version) == rewritten' = rewritten \cup ({version} \cap Stored)

Create(skill) ==
    /\ created < MaxNew
    /\ created' = created + 1
    /\ store' = Replaced(skill)
    /\ Rewrites(skill.version)
    /\ UNCHANGED <<copy, stats, restored, uses>>

Distil(turn, lineages, body) ==
    /\ Rejection(turn) = "none"
    /\ Create(Draft("distilled", "builtin", InheritTurnLineage(lineages), body))

\* load_skill: below the trusted tiers the content is a foreign skill's.
Import(trust, body) ==
    Create(Draft(trust, trust, IF trust \in MayContributeTools THEN {} ELSE {"foreign_skill"}, body))

-----------------------------------------------------------------------------
(* A curator: get, then one transition of the copy and the put of it. *)

Get(c, v) ==
    /\ copy[c] = NoCopy
    /\ v \in Stored
    /\ copy' = [copy EXCEPT ![c] = store[v]]
    /\ UNCHANGED <<store, stats, history, created, uses>>

\* The transition raised, or gave the copy back unchanged: nothing to put.
LetGo(c) ==
    /\ copy[c] # NoCopy
    /\ copy' = [copy EXCEPT ![c] = NoCopy]
    /\ UNCHANGED <<store, stats, history, created, uses>>

\* Called by the host after a reuse of the version.
PromoteOnReuse(c) ==
    /\ copy[c] # NoCopy
    /\ stats[copy[c].version].uses > 0
    /\ ~ copy[c].pinned
    /\ AgentCreated(copy[c])
    /\ copy[c].status = "draft"
    /\ AuthoredPromotable(copy[c], "candidate")
    /\ Put(c, [copy[c] EXCEPT !.status = "candidate"])
    /\ UNCHANGED <<stats, history, created, uses>>

\* Fault: any candidate that was used is promoted.
PromoteOnSuccessEarly(c) ==
    /\ copy[c] # NoCopy
    /\ ~ copy[c].pinned
    /\ AgentCreated(copy[c])
    /\ copy[c].status = "candidate"
    /\ AuthoredPromotable(copy[c], "active")
    /\ Put(c, [copy[c] EXCEPT !.status = "active"])
    /\ UNCHANGED <<stats, history, created, uses>>

PromoteOnSuccess(c) ==
    /\ copy[c] # NoCopy
    /\ ~ copy[c].pinned
    /\ AgentCreated(copy[c])
    /\ copy[c].status = "candidate"
    /\ MeetsActiveBar(stats[copy[c].version])
    /\ AuthoredPromotable(copy[c], "active")
    /\ Put(c, [copy[c] EXCEPT !.status = "active"])
    /\ UNCHANGED <<stats, history, created, uses>>

\* A new draft under the next version number, of the same lineage.
Improve(c, body) ==
    /\ copy[c] # NoCopy
    /\ copy[c].version < MaxVersion
    /\ AgentCreated(copy[c])
    /\ Put(c, [copy[c] EXCEPT !.body = body, !.version = @ + 1, !.parent = copy[c].version,
                              !.status = "draft", !.pinned = FALSE, !.improved = copy[c].body])
    /\ Rewrites(copy[c].version + 1)
    /\ UNCHANGED <<stats, restored, created, uses>>

Archive(c) ==
    /\ copy[c] # NoCopy
    /\ AgentCreated(copy[c])
    /\ Put(c, [copy[c] EXCEPT !.status = "archived"])
    /\ UNCHANGED <<stats, history, created, uses>>

Restore(c, to) ==
    /\ copy[c] # NoCopy
    /\ AgentCreated(copy[c])
    /\ copy[c].status = "archived"
    /\ to \in Retrievable => copy[c].lineage = {}
    /\ Put(c, [copy[c] EXCEPT !.status = to])
    /\ restored' = restored \cup {copy[c].version}
    /\ UNCHANGED <<stats, rewritten, created, uses>>

-----------------------------------------------------------------------------
(* The rest of the host: turns that use a version, and the user. *)

\* find gives retrievable versions; a draft is tried by name and version.
Use(v, success) ==
    /\ v \in Stored
    /\ store[v].status # "archived"
    /\ uses < MaxUses
    /\ uses' = uses + 1
    /\ stats' = [stats EXCEPT ![v] = Recorded(@, success)]
    /\ UNCHANGED <<store, copy, history, created>>

\* SqliteSkillStore.archive, an UPDATE of the status alone.
StoreArchive(v) ==
    /\ v \in Stored
    /\ store[v].status # "archived"
    /\ store' = [store EXCEPT ![v].status = "archived"]
    /\ UNCHANGED <<copy, stats, history, created, uses>>

\* The user's own put of a version with the pin set or taken off.
Pin(v) ==
    /\ v \in Stored
    /\ store' = [store EXCEPT ![v].pinned = ~ @]
    /\ UNCHANGED <<copy, stats, history, created, uses>>

-----------------------------------------------------------------------------

Turn == [succeeded : BOOLEAN, tool_calls : 0 .. 2, near_duplicate : BOOLEAN,
         parameterisable : BOOLEAN, injection : BOOLEAN]

Curate(c) ==
    \/ \E v \in Version : Get(c, v)
    \/ LetGo(c)
    \/ PromoteOnReuse(c)
    \/ PromoteOnSuccess(c)
    \/ \E body \in Body : Improve(c, body)
    \/ Archive(c)
    \/ \E to \in Status : Restore(c, to)

Next ==
    \/ \E body \in Body :
         \/ \E turn \in Turn, lineages \in SUBSET SUBSET Taint : Distil(turn, lineages, body)
         \/ \E trust \in Trust : Import(trust, body)
    \/ \E c \in Curator : Curate(c)
    \/ \E v \in Version :
         \/ \E success \in BOOLEAN : Use(v, success)
         \/ StoreArchive(v)
         \/ Pin(v)

Spec == Init /\ [][Next]_vars

-----------------------------------------------------------------------------
(* Properties. *)

Copies == {copy[c] : c \in Curator} \ {NoCopy}

\* Type invariant; a row sits under its own version number, and no version has
\* more successes than uses.
TypeOK ==
    /\ Stored \subseteq Version
    /\ \A v \in Stored : store[v] \in Skill /\ store[v].version = v
    /\ copy \in [Curator -> Skill \cup {NoCopy}]
    /\ stats \in [Version -> UsageStats]
    /\ \A v \in Version : /\ stats[v].successes <= stats[v].uses
                          /\ stats[v].uses <= uses
    /\ restored \subseteq Version /\ rewritten \subseteq Version
    /\ created \in 0 .. MaxNew
    /\ uses \in 0 .. MaxUses

Rows == {store[v] : v \in Stored}

\* Taint blocks promotion on every path: nothing that retrieval can find, and
\* no copy of it about to be put, comes from a turn that consumed anything
\* tainted, or was loaded from outside at any tier but builtin, however often it
\* was improved, archived and restored, used, raced over or written back stale.
\* What is loaded as builtin does get in, like a distilled version, though
\* lifecycle.py:28 says an imported skill is never auto-transitioned.
TaintStaysOut ==
    \A skill \in Rows \cup Copies :
        skill.status \in Retrievable => /\ skill.origin \in {"distilled", "builtin"}
                                        /\ skill.consumed = {}

\* "The retrieval set grows with demonstrated value": a retrievable version was
\* reused, an active one as often as the bar asks, unless it was restored from
\* the archive.  The bar counts uses; lifecycle.py:75 speaks of successful uses.
RetrievalIsEarned ==
    \A skill \in Rows \cup Copies :
        \/ skill.version \in restored
        \/ /\ skill.status = "candidate" => stats[skill.version].uses >= 1
           /\ skill.status = "active" => stats[skill.version].uses >= PromoteMinUses

\* "The old version is untouched": what an improvement was made from is stored
\* under the number it gives, with the body, origin and taints it had, through
\* stale copies of either that are promoted, archived, restored or pinned; only
\* a distillation, an import or another improvement under that number takes its
\* place, as NeverMutates shows they do.
RevertHasTarget ==
    \A skill \in Rows \cup Copies :
        skill.parent # 0 =>
            /\ skill.parent \in Stored /\ skill.parent < skill.version
            /\ skill.parent \notin rewritten =>
                /\ store[skill.parent].body = skill.improved
                /\ store[skill.parent].origin = skill.origin
                /\ store[skill.parent].consumed = skill.consumed

\* SkillStore.put: "Persist a NEW version.  Never mutates an existing one", in
\* what a version is: its body and the version it came from.
NeverMutates ==
    [][\A v \in Stored : /\ v \in DOMAIN store'
                         /\ store'[v].body = store[v].body
                         /\ store'[v].parent = store[v].parent]_store
=============================================================================
