------------------------------- MODULE Memory -------------------------------
(***************************************************************************)
(* What a house remembers.  memory/store.py: stores of one tenant and      *)
(* conversation each, their LONG records in a crew memory that stores      *)
(* share; storage/sqlite.py: one table.  A record's confidence is counted  *)
(* in tenths (the rounding of the floats is left out), and its place in    *)
(* the order of remembering is its identity.                               *)
(***************************************************************************)
EXTENDS Integers, Sequences, FiniteSets, SequencesExt

CONSTANTS
    Store,          \* the in-memory stores
    Tenant,         \* the houses
    Crew,           \* crew memories
    TenantOf,       \* the house of a store
    CrewOf,         \* the crew memory it was handed
    RecallLimit,    \* its recall_limit
    Db,             \* the SQLite store, which takes no tenant
    Key,            \* keys of records, in their order as strings
    Remembered,     \* what records say when they come; see MemoryRecord
    MaxRemembered   \* bound: records ever remembered

ASSUME MemoryAssumption ==
    /\ TenantOf \in [Store -> Tenant]
    /\ CrewOf \in [Store -> Crew]
    /\ RecallLimit \in [Store -> Nat]
    /\ Db \notin Store
    /\ Key \subseteq Nat
    /\ Remembered \subseteq [key : Key, scope : {"short", "mid", "long"}, confidence : 0 .. 10,
                            evidence_count : 0 .. 1, fresh : BOOLEAN]
    /\ MaxRemembered \in Nat

MemoryScope == {"short", "mid", "long"}

\* Who remembered a record is history: no store reads it.
MemoryRecord ==
    [id : 1 .. MaxRemembered, key : Key, scope : MemoryScope, confidence : 0 .. 10,
     evidence_count : 0 .. 1, fresh : BOOLEAN, by : Store \cup {Db}]

VARIABLES
    short,      \* _short of each store
    mid,        \* _mid of each store
    by_tenant,  \* _by_tenant of each crew memory
    table,      \* the memory table
    remembered, \* records remembered so far
    recalled    \* the answer to the last recall, and what it was asked

memoryVars == <<short, mid, by_tenant, table, remembered, recalled>>

MemoryInit ==
    /\ short = [s \in Store |-> {}]
    /\ mid = [s \in Store |-> {}]
    /\ by_tenant = [c \in Crew |-> [t \in Tenant |-> {}]]
    /\ table = {}
    /\ remembered = 0
    /\ recalled = [by |-> Db, records |-> <<>>, limit |-> 0]

-----------------------------------------------------------------------------
NewRecord(r) == remembered < MaxRemembered /\ remembered' = remembered + 1 /\ r.id = remembered'

\* remember: a LONG record goes to the crew, under the tenant of the store.
Remember(s, r) ==
    /\ NewRecord(r) /\ r.by = s
    /\ short' = IF r.scope = "short" THEN [short EXCEPT ![s] = @ \cup {r}] ELSE short
    /\ mid' = IF r.scope = "mid" THEN [mid EXCEPT ![s] = @ \cup {r}] ELSE mid
    /\ by_tenant' = IF r.scope = "long"
                    THEN [by_tenant EXCEPT ![CrewOf[s]][TenantOf[s]] = @ \cup {r}]
                    ELSE by_tenant
    /\ UNCHANGED <<table, recalled>>

\* SqliteMemoryStore._remember_many, of one record or of more.
RememberInTable(r) ==
    /\ NewRecord(r) /\ r.by = Db
    /\ table' = table \cup {r}
    /\ UNCHANGED <<short, mid, by_tenant, recalled>>

\* Fault: the crew's slots are read without a tenant.
LongRecordsOfAll(s) == UNION {by_tenant[CrewOf[s]][t] : t \in Tenant}

LongRecords(s) == by_tenant[CrewOf[s]][TenantOf[s]]

\* _visible
Visible(s, scopes) ==
    (IF "short" \in scopes THEN short[s] ELSE {})
        \cup (IF "mid" \in scopes THEN mid[s] ELSE {})
        \cup (IF "long" \in scopes THEN LongRecords(s) ELSE {})

\* The order of an answer: confidence, evidence, then what breaks a tie.
Outranks(r, q) ==
    \/ r.confidence > q.confidence
    \/ r.confidence = q.confidence /\ r.evidence_count > q.evidence_count

\* The order records are listed in, which the sort keeps: short, mid, long, each by age.
Listed(r) == CASE r.scope = "short" -> 0 [] r.scope = "mid" -> 1 [] r.scope = "long" -> 2

OutranksByKey(r, q) ==
    \/ Outranks(r, q)
    \/ ~Outranks(q, r) /\ r.key > q.key
    \/ ~Outranks(q, r) /\ r.key = q.key /\ Listed(r) < Listed(q)
    \/ ~Outranks(q, r) /\ r.key = q.key /\ Listed(r) = Listed(q) /\ r.id < q.id

\* The records in the order of an answer.
Ranked(records) ==
    CHOOSE seq \in SetToSeqs(records) :
        \A i, j \in DOMAIN seq : i < j => ~OutranksByKey(seq[j], seq[i])

Best(records, cap) == LET sorted == Ranked(records)
                      IN  SubSeq(sorted, 1, IF cap < Len(sorted) THEN cap ELSE Len(sorted))

Cap(s, limit) == IF limit < RecallLimit[s] THEN limit ELSE RecallLimit[s]

\* recall: a query matches the records of some keys; the cap comes after the ranking.
Recall(s, scopes, keys, limit) ==
    /\ recalled' = [by |-> s, limit |-> limit,
                    records |-> Best({r \in Visible(s, scopes) : r.key \in keys}, Cap(s, limit))]
    /\ UNCHANGED <<short, mid, by_tenant, table, remembered>>

\* The table's recall: with a search term relevance comes first, so that any of the
\* matches may be in the answer; without one all records of the scope match.
RecallFromTable(scopes, searched, keys, limit, answer) ==
    LET matches == {r \in table : r.scope \in scopes /\ (searched => r.key \in keys)}
    IN  /\ answer \subseteq matches
        /\ Cardinality(answer) = IF limit < Cardinality(matches) THEN limit ELSE Cardinality(matches)
        /\ ~searched => \A r \in answer : \A q \in matches \ answer : ~Outranks(q, r)
        /\ recalled' = [by |-> Db, limit |-> limit, records |-> Ranked(answer)]
        /\ UNCHANGED <<short, mid, by_tenant, table, remembered>>

-----------------------------------------------------------------------------
Lowered(r) == [r EXCEPT !.confidence = IF @ > 0 THEN @ - 1 ELSE 0]

\* Fault: a record without confidence is dropped.
DecayedDropping(records) == {Lowered(r) : r \in {q \in records : q.confidence > 1}}

Decayed(records) == {Lowered(r) : r \in records}

\* decay, of all a store sees whatever its age.
Decay(s) ==
    /\ short' = [short EXCEPT ![s] = Decayed(@)]
    /\ mid' = [mid EXCEPT ![s] = Decayed(@)]
    /\ by_tenant' = [by_tenant EXCEPT ![CrewOf[s]][TenantOf[s]] = Decayed(@)]
    /\ UNCHANGED <<table, remembered, recalled>>

\* The table's decay spares what was created after the cutoff.
DecayTable ==
    /\ table' = {IF r.fresh THEN r ELSE Lowered(r) : r \in table}
    /\ UNCHANGED <<short, mid, by_tenant, remembered, recalled>>

NextRecord(by) ==
    {[id |-> remembered + 1, key |-> r.key, scope |-> r.scope, confidence |-> r.confidence,
      evidence_count |-> r.evidence_count, fresh |-> r.fresh, by |-> by] : r \in Remembered}

Scopes == {{scope} : scope \in MemoryScope} \cup {MemoryScope}

MemoryNext ==
    \/ \E s \in Store : \E r \in NextRecord(s) : Remember(s, r)
    \/ \E r \in NextRecord(Db) : RememberInTable(r)
    \/ \E s \in Store, scopes \in Scopes, keys \in SUBSET Key, limit \in 0 .. 2 :
        Recall(s, scopes, keys, limit)
    \/ \E scopes \in Scopes, searched \in BOOLEAN, limit \in 0 .. 2, answer \in SUBSET table :
        \E keys \in IF searched THEN SUBSET Key ELSE {Key} :
            RecallFromTable(scopes, searched, keys, limit, answer)
    \/ \E s \in Store : Decay(s)
    \/ DecayTable

MemorySpec == MemoryInit /\ [][MemoryNext]_memoryVars

-----------------------------------------------------------------------------
(* Properties. *)

MemoryTypeOK ==
    /\ short \in [Store -> SUBSET MemoryRecord]
    /\ mid \in [Store -> SUBSET MemoryRecord]
    /\ by_tenant \in [Crew -> [Tenant -> SUBSET MemoryRecord]]
    /\ table \subseteq MemoryRecord
    /\ remembered \in 0 .. MaxRemembered
    /\ recalled.records \in Seq(MemoryRecord)

\* Who may be told what another store was: all of a house that share a crew memory a LONG
\* record, nobody else anything, not even houses that were handed one crew memory
\* (store.py, CrewMemory and _visible); and never more than both limits.
RecallIsOwn ==
    LET s == recalled.by
        told == ToSet(recalled.records)
    IN  /\ Len(recalled.records) <= recalled.limit
        /\ s \in Store =>
            /\ Len(recalled.records) <= RecallLimit[s]
            /\ \A r \in told :
                r.by = s \/ (r.scope = "long" /\ r.by \in Store
                              /\ TenantOf[r.by] = TenantOf[s] /\ CrewOf[r.by] = CrewOf[s])
        /\ s = Db => \A r \in told : r.by = Db

\* All of before is still there, worth no more than it was and otherwise the same.
Keeps(before, after) ==
    \A r \in before : \E q \in after :
        q.confidence <= r.confidence /\ q = [r EXCEPT !.confidence = q.confidence]

\* Punishment is done safely: a record is never forgotten, moved, or made worth more than
\* it was; only its confidence falls, and in the table only if it is not fresh
\* (store.py, decay; sqlite.py, decay and docs/24-audit.md, defect 2).
NothingForgotten ==
    [][ /\ \A s \in Store : Keeps(short[s], short'[s]) /\ Keeps(mid[s], mid'[s])
        /\ \A c \in Crew, t \in Tenant : Keeps(by_tenant[c][t], by_tenant'[c][t])
        /\ Keeps(table, table')
        /\ {r \in table : r.fresh} \subseteq table' ]_memoryVars
=============================================================================
