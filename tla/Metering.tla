------------------------------ MODULE Metering ------------------------------
(***************************************************************************)
(* telemetry/ledger.py: the counters of a run of the house and of each     *)
(* agent, and the three samples its percentiles are taken over.            *)
(***************************************************************************)
EXTENDS Integers, Sequences, SequencesExt, FiniteSetsExt

CONSTANTS
    Metered,    \* names agents are recorded under, the empty one too
    Timing,     \* timings of turns: setup, wait, stream, finalize and total in ms
    Latency,    \* latency_ms of results
    Tokens,     \* what one counter of a result may be
    MaxMetered  \* bound: turns recorded

ASSUME MeteringAssumption ==
    /\ Timing \subseteq [setup_ms : Nat, wait_ms : Nat, stream_ms : Nat, finalize_ms : Nat,
                         total_ms : Nat]
    /\ Latency \subseteq Nat /\ Tokens \subseteq Nat /\ MaxMetered \in Nat

VARIABLES
    latency, framework, model,  \* the samples, in the order they came
    counts,     \* the counters of results, over all
    phases,     \* the phases of turns, over all, and what was not attributed
    by_agent,   \* _by_agent: counters and times of each agent
    bare,       \* history: totals of the timings that came without a result
    unmeasured  \* history: the latency of results whose timing had no total

meteringVars == <<latency, framework, model, counts, phases, by_agent, bare, unmeasured>>

Counter == {"input_tokens", "output_tokens", "cache_read_tokens", "cache_write_tokens",
            "cost_credits", "iterations"}
Phase == {"setup_ms", "wait_ms", "stream_ms", "finalize_ms", "unattributed_ms"}
Share == Counter \cup {"turns", "framework_ms", "model_ms", "total_ms"}

\* Of TurnTiming.
FrameworkMs(timing) == timing.setup_ms + timing.finalize_ms
ModelMs(timing) == timing.wait_ms + timing.stream_ms
UnattributedMs(timing) ==
    Max({0, timing.total_ms - FrameworkMs(timing) - ModelMs(timing)})

\* A result's total is the sum of its phases, or else its latency.
TotalMs(timing, latency_ms) == IF timing.total_ms # 0 THEN timing.total_ms ELSE latency_ms

Turns == Len(latency)

MeteringInit ==
    /\ latency = <<>> /\ framework = <<>> /\ model = <<>>
    /\ counts = [c \in Counter |-> 0]
    /\ phases = [p \in Phase |-> 0]
    /\ by_agent = [a \in {} |-> [x \in Share |-> 0]]
    /\ bare = <<>> /\ unmeasured = 0

\* The samples and the phases, which record and record_timing fold in alike.
Samples(timing, total) ==
    /\ latency' = Append(latency, total)
    /\ framework' = Append(framework, FrameworkMs(timing))
    /\ model' = Append(model, ModelMs(timing))
    /\ phases' = [p \in Phase |->
            phases[p] + IF p = "unattributed_ms" THEN UnattributedMs(timing) ELSE timing[p]]

\* Fault: the agent's total is that of the timing.
ShareOfTimed(used, timing, latency_ms) ==
    [x \in Share |-> CASE x \in Counter -> used[x]
                       [] x = "turns" -> 1
                       [] x = "framework_ms" -> FrameworkMs(timing)
                       [] x = "model_ms" -> ModelMs(timing)
                       [] x = "total_ms" -> timing.total_ms]

\* What a turn adds to the bucket of its agent.
ShareOf(used, timing, latency_ms) ==
    [x \in Share |-> CASE x \in Counter -> used[x]
                       [] x = "turns" -> 1
                       [] x = "framework_ms" -> FrameworkMs(timing)
                       [] x = "model_ms" -> ModelMs(timing)
                       [] x = "total_ms" -> TotalMs(timing, latency_ms)]

Record(agent_name, used, timing, latency_ms) ==
    /\ Turns < MaxMetered
    /\ Samples(timing, TotalMs(timing, latency_ms))
    /\ counts' = [c \in Counter |-> counts[c] + used[c]]
    /\ LET share == ShareOf(used, timing, latency_ms)
       IN  by_agent' = [a \in DOMAIN by_agent \cup {agent_name} |->
                IF a # agent_name THEN by_agent[a]
                ELSE IF a \in DOMAIN by_agent
                     THEN [x \in Share |-> by_agent[a][x] + share[x]]
                     ELSE share]
    /\ unmeasured' = unmeasured + IF timing.total_ms = 0 THEN latency_ms ELSE 0
    /\ UNCHANGED bare

RecordTiming(timing) ==
    /\ Turns < MaxMetered
    /\ Samples(timing, timing.total_ms)
    /\ bare' = Append(bare, [framework_ms |-> FrameworkMs(timing), model_ms |-> ModelMs(timing),
                             total_ms |-> timing.total_ms])
    /\ UNCHANGED <<counts, by_agent, unmeasured>>

\* What turns use: every counter moves by an amount of its own.
Use == {[c \in Counter |-> IF c = "cost_credits" THEN b ELSE a] : a, b \in Tokens}

MeteringNext ==
    \/ \E a \in Metered, used \in Use, timing \in Timing, l \in Latency : Record(a, used, timing, l)
    \/ \E timing \in Timing : RecordTiming(timing)

MeteringSpec == MeteringInit /\ [][MeteringNext]_meteringVars

-----------------------------------------------------------------------------
(* Queries. *)

Total(samples) == FoldSeq(LAMBDA x, sum : x + sum, 0, samples)

LedgerTotals ==
    [framework_ms |-> Total(framework), model_ms |-> Total(model), total_ms |-> Total(latency)]

\* sorted: at place k is the sample that fewer than k are below and k are at most.
Sorted(samples) ==
    [k \in DOMAIN samples |->
        CHOOSE v \in ToSet(samples) : /\ Cardinality({i \in DOMAIN samples : samples[i] < v}) < k
                                      /\ Cardinality({i \in DOMAIN samples : samples[i] <= v}) >= k]

\* A rank on [0, n - 1], in hundredths.
Rank(percent, n) == percent * (n - 1)

\* pick, in hundredths of a ms: between the two neighbours of the rank.
Pick(samples, percent) ==
    LET ordered == Sorted(samples)
        rank == Rank(percent, Len(samples))
        low == (rank \div 100) + 1
        high == IF low < Len(samples) THEN low + 1 ELSE Len(samples)
    IN  100 * ordered[low] + (ordered[high] - ordered[low]) * (rank % 100)

Percentiles(samples) ==
    IF samples = <<>> THEN [p50 |-> 0, p90 |-> 0, p99 |-> 0]
    ELSE [p50 |-> Pick(samples, 50), p90 |-> Pick(samples, 90), p99 |-> Pick(samples, 99)]

-----------------------------------------------------------------------------
(* Properties. *)

MeteringTypeOK ==
    /\ {latency, framework, model} \subseteq Seq(Nat)
    /\ Len(framework) = Turns /\ Len(model) = Turns
    /\ counts \in [Counter -> Nat]
    /\ phases \in [Phase -> Nat]
    /\ DOMAIN by_agent \subseteq Metered
    /\ \A a \in DOMAIN by_agent : by_agent[a] \in [Share -> Nat]
    /\ unmeasured \in Nat

OverAgents(x) == MapThenSumSet(LAMBDA a : by_agent[a][x], DOMAIN by_agent)
OverBare(x) == Total([i \in DOMAIN bare |-> bare[i][x]])

\* No turn is counted twice or for nobody: the agents' shares and the timings that came
\* alone make up the totals, the phases make up the clock but for what was not measured, and
\* the percentiles of each sample lie in it and rise (ledger.py, record, record_timing and
\* _percentiles).
MetersAgree ==
    /\ \A c \in Counter : OverAgents(c) = counts[c]
    /\ OverAgents("turns") + Len(bare) = Turns
    /\ \A x \in {"framework_ms", "model_ms", "total_ms"} :
        OverAgents(x) + OverBare(x) = LedgerTotals[x]
    /\ phases.setup_ms + phases.finalize_ms = LedgerTotals.framework_ms
    /\ phases.wait_ms + phases.stream_ms = LedgerTotals.model_ms
    /\ LedgerTotals.framework_ms + LedgerTotals.model_ms + phases.unattributed_ms + unmeasured
        >= LedgerTotals.total_ms
    /\ \A samples \in {latency, framework, model} \ {<<>>} :
        LET p == Percentiles(samples)
        IN  /\ 100 * Min(ToSet(samples)) <= p.p50
            /\ p.p50 <= p.p90 /\ p.p90 <= p.p99
            /\ p.p99 <= 100 * Max(ToSet(samples))
=============================================================================
