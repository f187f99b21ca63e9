----------------------------- MODULE Partition -----------------------------
(***************************************************************************)
(* The partition of an agent: the skills its model selects from, and the   *)
(* two checks of how alike their descriptions are (discovery/routing.py    *)
(* over skills/confusability.py).  A check reads the partition, awaits the *)
(* embedder, and only warns; the skill joins later, if its author says so. *)
(***************************************************************************)
EXTENDS Integers, FiniteSets, FiniteSetsExt

CONSTANTS
    Description,    \* descriptions of skills
    Similarity,     \* cosine_similarity of two of them, in hundredths
    MaxSkills       \* bound: skills ever checked

SplitThreshold == 85    \* DEFAULT_SPLIT_THRESHOLD, and check_new_skill's default

ASSUME SimilarityAssumption ==
    /\ Similarity \in [Description \X Description -> -100 .. 100]
    /\ \A a, b \in Description : Similarity[<<a, b>>] = Similarity[<<b, a>>]
ASSUME SkillBound == MaxSkills \in Nat

VARIABLES
    partition,  \* skills the agent has: their number, text, what was seen and warned
    checking,   \* skills whose check has read the partition and not yet joined
    checked     \* skills checked so far

partitionVars == <<partition, checking, checked>>

\* A skill with the partition its check read, and the report's breaches_threshold.
Skill == [id : 1 .. MaxSkills, text : Description,
          seen : SUBSET (1 .. MaxSkills), breaches_threshold : BOOLEAN]

Alike(r, s) == Similarity[<<r.text, s.text>>]

PartitionInit == partition = {} /\ checking = {} /\ checked = 0

-----------------------------------------------------------------------------
\* check_new_skill: the nearest of the existing descriptions, if there are any.
NearestScore(text, existing) == Max({Similarity[<<text, s.text>>] : s \in existing})

\* Fault: a score that meets the threshold does not breach it.
BreachesAbove(text, existing) ==
    existing # {} /\ NearestScore(text, existing) > SplitThreshold

Breaches(text, existing) == existing # {} /\ NearestScore(text, existing) >= SplitThreshold

\* check_partition_addition reads the partition and awaits the embedder.
Check(text) ==
    /\ checked < MaxSkills
    /\ checked' = checked + 1
    /\ checking' = checking \cup
        {[id |-> checked', text |-> text, seen |-> {s.id : s \in partition},
          breaches_threshold |-> Breaches(text, partition)]}
    /\ UNCHANGED partition

\* The report is advice: the skill may join, warned of or not, or be dropped.
Join(s) ==
    /\ partition' = partition \cup {s}
    /\ checking' = checking \ {s}
    /\ UNCHANGED checked

Drop(s) == checking' = checking \ {s} /\ UNCHANGED <<partition, checked>>

\* A skill is archived, or loses the tag.
Leave(s) == partition' = partition \ {s} /\ UNCHANGED <<checking, checked>>

PartitionNext ==
    \/ \E text \in Description : Check(text)
    \/ \E s \in checking : Join(s) \/ Drop(s)
    \/ \E s \in partition : Leave(s)

\* max_pairwise_similarity over the pairs, each taken once.
Pairs(skills) == {p \in skills \X skills : p[1].id < p[2].id}
PairScores(skills) == {Alike(p[1], p[2]) : p \in Pairs(skills)}

AuditPartition(skills) ==
    LET best == IF Cardinality(skills) < 2 THEN 0 ELSE Max(PairScores(skills))
    IN  [skill_count |-> Cardinality(skills), max_pairwise_similarity |-> best,
         should_split |-> Cardinality(skills) >= 2 /\ best >= SplitThreshold]

PartitionSpec == PartitionInit /\ [][PartitionNext]_partitionVars

-----------------------------------------------------------------------------
(* Properties. *)

PartitionTypeOK ==
    /\ partition \subseteq Skill
    /\ checking \subseteq Skill
    /\ checked \in 0 .. MaxSkills

\* An audit never says split out of the blue: some skill of the partition joined under
\* a warning, or two joined whose checks had each read the partition without the other
\* (routing.py, check_partition_addition and audit_partition share one threshold).
SplitWasForeseen ==
    AuditPartition(partition).should_split =>
        \/ \E s \in partition : s.breaches_threshold
        \/ \E r, s \in partition : r.id # s.id /\ r.id \notin s.seen /\ s.id \notin r.seen
=============================================================================
