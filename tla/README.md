# Pikachu, verified

TLA+ models of the parts of Pikachu (`src/src/pikachu`) whose correctness is a
matter of order: money that is held, charged and given back, runs that crash
and are resumed, skills that are promoted and improved, a board that several
agents write to, turns that are streamed and tried again, and the boundaries
over which tools, cards, tokens and plugins come in. `PROJECT.json` lists components, runs, mutants, the map from
definitions to source lines, hazards, findings and theorems; this file explains
them. Paths below are relative to `src/src/pikachu`.

## 1. The system

Pikachu is a library for building agents: a *host* application owns the process,
the model and the storage; the library gives it a biller, durable runs, a skill
store, a guard that narrows tools, a canvas of artifacts, media tools, memory
and protocol adapters. Everything runs on one asyncio loop per process, with
state in memory or in one SQLite file; several processes may share the file.

| component | state it keeps | operations | what is hard |
|---|---|---|---|
| Billing ledger `billing/ledger.py` | current row per reservation, history of rows, a counter | reserve, capture, release, audit queries | calls repeated and out of order, on different outcomes |
| Checkpointer `durability/checkpoint.py` | none; writes whole `Run` rows | open, record, record_capture, close | the copy it writes may be older than the row |
| Resumer `durability/resume.py` | none; reads the row, drives the biller | load, decide, safe_capture, resume_reservation, settle_reconciliation, resume | a crash between any two awaits, replays, unknown outcomes |
| Stores `storage/sqlite.py` | runs, captures, skills, memories, artifacts | one transaction each | INSERT OR REPLACE of whole rows, migration |
| Fake backend `backends/fake.py` | script, biller totals | run_turn, _meter | a failed turn is replayed from its start |
| Pydantic AI backend `backends/pydantic_ai.py`, `streaming.py` | none between turns | run_turn, stream_turn, retries | streaming failure falls back to a second run |
| Guard `guard/*` | none | effective_tools, admit, assert_*, lineage merge | every path must narrow, taint must be monotone |
| Skills `curator/*`, `skills/*`, `storage/sqlite.py` | versions of each skill, status, lineage, pins | distil, promote, improve, revert, archive, restore, put | two improvements of one version; taint and promotion |
| Canvas `canvas/graph.py` | artifacts, gates, grants | append, revise, get, children, read, gate, grant | gates and taint along derived artifacts |
| Media tools `tools/media.py` | none; one context a turn | register, invoke, as_tool_registry | calls that run at once and share one artifact id |
| Memory `memory/store.py`, `storage/sqlite.py` | records by scope, a crew memory that stores share, a table | remember, recall, decay | who may be told what; two implementations |
| MCP `mcp/*` | the discovered tools; our server's agent | discover, list, call, handle | answers lost or late, a server replaced between list and call |
| Registry and routing `discovery/*` | live and retired agents; partitions of skills | create, retire, restore, route, check, audit | names for good, a route from an old list, two checks at once |
| Token ledger `telemetry/ledger.py` | counters and three samples | record, record_timing | turns measured in part, percentiles of few samples |
| A2A cards `a2a/cards.py` | none; the consumer's keys | emit, consume, narrow | a card put together from others |
| OAuth `authz/oauth.py` | none; the host's flows | discover, parse, register, authorize, redeem, validate | redirects that cross |
| Plugins `plugins/*`, `skills/loader.py`, `skills/frontmatter.py` | none; a directory | load | a directory that is replaced while it is read |
| WebMCP, tracing, migration, config, evals, scanner, Markdown export | nothing over time, or I/O | | text and files |

How they interact: a host calls `Biller.reserve`, runs a paid tool, and captures
or releases on the tool's `ToolOutcome`; it persists progress through the
`Checkpointer` into the `RunStore`; after a crash the `Resumer` reads the row and
the host's own journal of tool calls and resolves what was in flight, returning a
`Reconciliation` for each call whose outcome is unknown, which the host settles
after it has asked the provider.

## 2. Modules

| module | models | state |
|---|---|---|
| `ReservationLifecycle` | the pure rules of one ledger row: capture target, refusal, refund | none |
| `Reservations` | *abstract*: what a `Biller` promises of each reservation | status per reservation |
| `LedgerBiller` | `billing/ledger.py` whole | `counter`, `entries`, `history`, `reply` |
| `ExactlyOnce` | *abstract*: what a durable run promises of its paid calls | fate, charged, recorded, closed |
| `Durability` | `durability/*` over a biller and a run store, with hosts and crashes | `biller`, `store`, `journal`, `landed`, `host`, `crashes` |
| `Skills` | one skill name: `curator/*`, the gates of `guard/authored.py` and `guard/lineage.py`, `skills/loader.py`, `SqliteSkillStore` | `store`, `copy`, `stats`, `restored`, bounds |
| `Canvas` | `canvas/graph.py`, `SqliteCanvasStore`, the calls of `tools/media.py` | `board`, `gated`, `granted`, `reader`, `seen`, `media`, `made` |
| `TurnStream` | *abstract*: what the consumer of a turn is promised of its events | stage, open calls, broken |
| `Turn` | `backends/pydantic_ai.py`, `backends/fake.py`, `backends/streaming.py`, narrowed by `guard/allowlist.py` | `path`, `request`, toolset and cache, the run in progress, `plan`, `events`, `result` |
| `Guard` | the pure rules of the boundaries: `normalize_tool_name`, `effective_tools`, `admit` | none |
| `Agents` | `discovery/registry.py`, `route` of `discovery/routing.py` | `live`, `retired`, `roster`, `decision` |
| `Partition` | the checks of `discovery/routing.py` and `skills/confusability.py` | `partition`, `checking`, `checked` |
| `Mcp` | `mcp/client.py` and `mcp/server.py` over a wire | `server`, `discovery`, `wire`, `sent` and history |
| `Memory` | `memory/store.py`, `SqliteMemoryStore` | `short`, `mid`, `by_tenant`, `table`, `recalled` |
| `Metering` | `telemetry/ledger.py` | three samples, counters over all and by agent |
| `OAuth` | `authz/oauth.py` in flows of a host | `flow`, `issued`, `redirects`, `held`, `accepted` |
| `Cards` | `a2a/cards.py` | `document`, `known_keys`, `peers`, `signed` |
| `Frontmatter` | `skills/frontmatter.py`, the pure half of `skills/loader.py` | none |
| `Intake` | `plugins/loader.py` file by file, `plugins/manifest.py` | `disk`, `step`, `todo`, `plugin` |
| `House` | `Agents` to `Intake`, side by side | `part` and theirs |
| `MC*` | the instances TLC checks | |
| `SumProofs` | lemmas about sums over finite sets and about smallest counterexamples | |
| `LedgerBillerProofs`, `DurabilityProofs`, `SkillsProofs`, `CanvasProofs`, `TurnProofs` | theorems about the module of that name | |
| `TurnStreamProofs` | that `Turn` keeps the contract of its events | |
| `HouseProofs` | theorems about each part of `House`, and about their sum | |

**LedgerBiller.** No coroutine of `LedgerBiller` awaits, so each call is one step.
`capture` is split by its exits: `CaptureUnknown` (KeyError), `CaptureDouble`
(DoubleCaptureError), `CaptureAgain` (idempotent return) and `Capture`; `release`
into `ReleaseNothing` and `Release`. `Record` is `_transition`: the current row
and one row more of history. Callers may pass any id, amount and outcome.

**Durability.** One run. A process (`host[p]`) stands at a place between two
awaits of the code and holds its own copy of the `Run`; `store` is the row.

| code | action |
|---|---|
| `Checkpointer.open` | `Open` |
| `Resumer.load` | `Resume` |
| one round of the loop in `Resumer.resume` (`decide`, `resume_reservation`) | `ResumeReservation`, then `Capture`/`Release` |
| end of that loop | `Resumed` |
| `settle_reconciliation` | `Settle`, then `Capture` or `Release` |
| `safe_capture`: the biller's half, its exception, the record's half | `Capture`, `CaptureRaises`, `RecordCapture` |
| the host's call: reserve, journal, run the tool, react to its outcome | `Reserve`, `Journal`, `Call`, `React`; `Adopt` after a crash |
| `Checkpointer.record` at the end of an iteration | `Iterate` |
| `Checkpointer.close` | `Close` |
| the process dies | `Crash` |

What the host is assumed to do is in `tests/properties/test_resume.py` and the
docstrings of `durability/resume.py`: it journals a reservation before it uses it,
notes the outcome it saw (`interrupted` when it died during the call), passes all
of the journal as `pending` on each resume, and settles a reconciliation with the
provider's true answer, which is final once asked. Biller, store, journal and
provider survive a crash. A call is made by one process at a time. `OnInterrupted`
covers both things a live host can do with an interrupted call: give it to
`resume_reservation` (`surface`), or capture it at the biller on INTERRUPTED as
`FakeBackend._meter` does (`hold`).

Left out: `refunded_credits` (nothing that drives these classes writes it),
`max_iterations` and timestamps, AWAITING_APPROVAL (to `load` it is one more phase
that is not terminal), several runs (they share nothing but the file).

**Skills.** One skill name (names share nothing). Every transition of the curator
is a pure function of a `Skill` it is given; a host gets one from the store,
awaits, and puts the result, so `Get` and the transition are two steps and the
copy may be stale when it is put (`INSERT OR REPLACE` on name and version).
A transition that raises or returns its argument is `LetGo`.

| code | action |
|---|---|
| `distil` and the host's put | `Distil`, with the five gates in `Rejection` |
| `load_skill` and the host's put | `Import` |
| `SqliteSkillStore.get` | `Get` |
| `promote_on_reuse`, `promote_on_success`, then put | `PromoteOnReuse`, `PromoteOnSuccess` |
| `improve`, `archive`, `restore`, then put | `Improve`, `Archive`, `Restore` |
| a turn that uses a version, `UsageStats.record` | `Use` |
| `SqliteSkillStore.archive` | `StoreArchive` |
| the user's put with the pin changed | `Pin` |

`revert` returns its argument and has no state of its own: what it promises is
`RevertHasTarget`. `consumed` (the taints of all that the turn behind a version
consumed), `origin` (distilled, or loaded at which tier), `improved` (the body it
was made from), `restored` and `rewritten` (numbers that were distilled, imported
or improved to again) are history. A document loaded as builtin has a clean
lineage and passes for one the curator wrote: `TaintStaysOut` does not say it stays
out, and section 3 says what document that goes against. `improve` takes a body and keeps the
parent's lineage, so the body is assumed to come from nothing tainted that the
parent did not come from.

**Canvas.** Several agents (one turn of each) share a board. Each operation of
`CanvasGraph` is one step, `revise` included: it awaits its own `append`, which
does not suspend. A media call is two steps, `Invoke` up to the await of the
generator and `Failed` or `Succeeded` after it; calls of one turn overlap.

| code | action |
|---|---|
| `append`, `revise`, `read` by an agent | `AppendArtifact`, `Revise`, `Read` |
| `require_approval`, `grant_approval` by the host | `RequireApproval`, `GrantApproval` |
| `as_tool_registry(context=...)` | `Bind` |
| `invoke`, the generator failing or giving a result | `Invoke`, `Failed`, `Succeeded` |
| the host stores the sink with `append`, or with `append_many` | `EndTurn`, then `Store` or `StoreMany` |

An agent does as `examples/canvas_handoff.py` does: it adopts the lineage that
`read` returns and writes it into what it appends; it names a parent it has read,
or a malformed one (its own id, or one that does not exist yet), which is how a
cycle arises. A revision takes the parent's lineage, or the one passed. `from`
(the ids that went into an artifact), `approval` and `seen` are history. A media
result carries the tool's taint only, also when its context names a parent:
`TaintTravels` says so. Ids of media contexts are fresh, as "the host's own id
scheme" makes them; agents may pick a taken id and are refused. Gates exist in
`CanvasGraph` only; the durable board has none. A denied call changes nothing.

**Turn.** One turn at a time, in one of four modes: `run_turn` or `stream_turn`
of the Pydantic AI backend, `run_turn` of the fake backend, and the stream
`backends/streaming.py` makes of it. `path` is where the coroutine stands.

| code | action |
|---|---|
| the host narrows and asks | `Begin` |
| `_build_agent` with `_toolset_cache` | `BuildAgent`, `BuildRefused` |
| the provider's parts, as the run sees them | `ModelCalls`, `ToolReturns`, `ModelSpeaks` |
| `_call`, `_call_once`, the end of `run_turn` | `CallMeetsEmpty`, `MeasuredFails`, `PlainFails`, `RunAnswers` |
| `stream_turn` and its fall to `run_turn` | `LiveAnswers`, `LiveFails` |
| `FakeBackend.run_turn` | `FakeIterates`, `FakeCalls`, `FakeGives`, `FakeAnswers` |
| `_reconstruct`, the events told after a result | `Reconstructed`, `Yield` |
| the consumer leaves, or the task is cancelled | `Abandon` |

Text and artifacts are there or not; a call keeps its tool and what came back.
The provider, the agent library and its toolset are external: they may call any
name, in parallel, refuse, ask for a retry, break at any point, and of the calls
that were running then any may have executed. `empties` counts the empty
completions of each kind of run; `_call` counts its own only (`OneBudget`). Costs and token
counts are not in it (`Metering` has the ledger's side).

**House.** `Agents`, `Partition`, `Mcp`, `Memory`, `Metering`, `OAuth`, `Cards` and
`Intake` share operators (`Guard`) and no state. `House` is their sum: the initial
state picks the part that moves, the others rest in one of their initial states.
Since no step of a part reads another's variables, every state of every part is
reached, and one run with one type invariant checks all of them without the
product of their states.

*Agents.* `Create`, `Retire`, `Restore` are the registry's; the host lists
(`HostLists`), then routes among what it has listed (`Route`), and acts on the
answer later still. A message is the set of triggers that occur in it.
*Partition.* `Check` is `check_partition_addition`: it reads the partition and
awaits the embedder; `Join`, `Drop` and `Leave` are the host's.
*Mcp.* A request is sent, handled, and taken, in three steps; it may be lost at
any of them, and answers overtake one another. `Replaced` puts another server
behind the address: ours for another agent, or a foreign one that answers what it
likes. `HandleDiscover`, `HandleCall` are `MCPServer.handle`; `Discovered` and
`CallReturns` what the client does after its await. A stranger is another client
of our server, who writes any name.
*Memory.* Each store holds SHORT and MID, and LONG in the crew memory it was
handed, under its tenant; the table has no tenant. `recalled` is the last answer.
With a search term the table ranks by relevance, which the model leaves open.
*Metering.* `Record` and `RecordTiming`; the totals and percentiles are operators.
*OAuth.* The functions are pure; the flows are the host that uses them. The host
may redeem any redirect for any flow that waits: telling them apart by `state` is
its business, and PKCE must hold without it.
*Cards.* `Emit` and `Consume` with, between them, a document that is cut short, an
older one, or one put together from parts of several; keys come and go.
*Intake.* `load_plugin` in the order of its reads, while another program replaces
files. A file is absent, unreadable, not UTF-8, or says something; what a
SKILL.md says goes through `Frontmatter`, rule by rule, over abstract lines. A
bundle is read in two steps, its SKILL.md (`LoadBundle`) and the list of its scripts
(`RecordScripts`); `base` is the skill between them. What neither the loader nor the
parser catches ends the load (`Escapes`): a file that is not UTF-8, a SKILL.md that
cannot be opened, and digits that `int()` or `float()` refuse (`ParseEscapes`).

## 3. Runs

| run | instance | shows |
|---|---|---|
| `ledger` | two runs, amounts -1 (refused) and 2, three reservations; any sequence of calls | `HistoryExplains`, `ChargedAtMostOnce`, `AuditBalances`, and that the ledger implements `Reservations` |
| `durable_run` | one host, calls of two different costs, three calls, two crashes | a closed run has spent exactly what landed (`SpendIsTruth`); it implements `ExactlyOnce`, liveness included |
| `shared_run` | two hosts racing, both reactions, two calls, one crash | `RecordIsBacked`, `RecordBalances`, `MoneyFollowsTruth` |
| `lost_update` | two hosts, no crash | **violated** `NeverForgets` |
| `held_interrupted` | one host, `hold`, one crash | **violated** `SettlementCharges` |
| `skills` | one curator, two versions, two creations, three uses; imports, pins and archiving race with its copies | `TaintStaysOut`, `RetrievalIsEarned`, `RevertHasTarget` |
| `skills_rewrite` | one curator, two bodies | **violated** `NeverMutates` |
| `canvas` | two agents, one of a foreign skill and with media tools, three ids, three payloads, two calls, two reads, one gate and one grant | `AppendOnly`, `TaintTravels`, `ApprovalHolds`, `TraversalsAgree` |
| `canvas_media_ids` | one agent, two calls of one turn | **violated** `IdRestores` |
| `turn` | two turns, four tools of which one is granted, one undeclared, one not allowed and one dangerous; one call a run, two in a script | `OnlyPermitted`, `OneBudget`, `ReportIsTrue`, `ShownAsDone`, `StreamTellsResult`, that a stream implements `TurnStream`, and that each turn ends (`TurnEnds`) |
| `turn_empties` | one turn | **violated** `EveryEmptyCounts` |
| `house` | see the parts below | `NameMeansOneAgent`, `RouteStillHolds`; `SplitWasForeseen`; `InvokedWithinBoth`, `AnswersTakenWhole`; `RecallIsOwn`, `NothingForgotten`; `MetersAgree`; `TokenStaysWithItsFlow`; `PeersAreAuthentic`; `LoadIsAccounted` |

Why the bounds are enough: a reservation has four states and its steps touch no
other, so two of one run and one of another show every interference; three
calls let a crash find one resolved, one in flight and one not started; a
second crash interrupts the recovery from the first. Two hosts are the least
that race. Two amounts tell costs apart. In `skills` the host itself is the
second party: a creation, an archive or a pin between `Get` and the put makes the
copy stale; three uses reach the bar of `promote_on_success`; a second creation
replaces a first version that was improved already; one taint is enough because
the gates only ask whether there is any. Versions are told apart
by their origin (distilled, or loaded at one of four tiers) and their taints, so that a
row put in the place of another shows; that bodies stay too, of which the run has one,
is what the theorem says of any number (`RevertPossible`), and `skills_rewrite` has two.
In `canvas` three ids make every shape
a walk can go wrong on (a chain, a cycle, a tail into a cycle, a dangling parent),
and two reads carry a taint to the second agent and back. One gate and one grant
give the right grant, a grant of another id, and an early one.

In `turn` a second turn finds the toolset the first one left in the cache; three
attempts are the code's own budget; the fall from live to measured to plain needs
no more than one call to leave one open, to run it twice, and to lose it. Calls of
one run that are under way together, and come back in any order, need two in a run,
which with a second turn is out of TLC's reach: they are the theorems' part, which
hold for any `MaxCalls` (`ReportsAreTrue`, `SuccessesWereExecutions`,
`StreamKeepsItsContract`). In `house`: two specs want one name and two match one message; three skills of which
two are alike are the least that two overlapping checks can miss; two requests
overtake each other, over two servers of ours, of which one has an invoker it does
not advertise, and six foreign advertisements (good, with a blank name, malformed,
misshapen, of another version, of none); three stores, two of one house and one of
another on one crew memory, and two records, so that a limit of one leaves one
out; three turns make a percentile fall between two samples; two flows cross;
two signed cards can be mixed; two bundles, of which one may be replaced once, among
documents that are good (with a nested block, with a blank tool), that are not (a key
twice, a tool declared), and that make the loader raise.

**Fairness.** `WF_vars(Work(p))`: a live coroutine goes on, and a dead host is
resumed. It does not say that a host starts a call or closes the run. `Crash`
has no fairness and is bounded by `MaxCrashes`: recovery is retried until it
succeeds, as the documentation of `resume` assumes ("it is safe to pass the same
pending set on repeated resumes"). Without a bound no run need ever finish.
In `Turn`, `WF_vars(Proceed)`: the provider answers or its client times out, runs
and scripts are finite (their bounds), and a consumer that stays takes the next
event. It does not say that a turn is asked for, nor that none is abandoned.
`House` states no fairness and no liveness.

**The disagreements.** `lost_update`: `Checkpointer` promises that a checkpoint
cannot forget a captured reservation; it merges into the *caller's* copy and
writes the whole row, so a second holder of the run erases what the first one
recorded. The biller still refuses the second charge (`RecordIsBacked`,
`MoneyFollowsTruth` hold in `shared_run`), so the damage is to the record.
`held_interrupted`: an interrupted call captured at the biller as INTERRUPTED and
then settled with `side_effect_occurred=True` is captured on SUCCESS, another
outcome, and raises DoubleCaptureError on each attempt. `skills_rewrite`:
`SkillStore.put` promises never to mutate an existing version; `improve` numbers
its result one above its argument, so improving version 1 again, as after a
revert to it, replaces the stored version 2, and a second `distil` or import of the
name replaces version 1. `canvas_media_ids`: the calls of a turn share one `artifact_id`; of two
results the board keeps one, or none with `append_many`, while the model was
told that id for both, and an id is to restore its artifact. `turn_empties`: one budget of
attempts is to cover every model invocation of a turn; the live run of `stream_turn`
does not go through `_call`, so that a native turn can meet four empty completions.

**Met while modelling.** Read in the code beside a sentence that says otherwise,
and not checked by a run of its own. The models do all of it, and the properties are
stated so that they hold of it:

* `curator/lifecycle.py` 28: only agent-created skills are transitioned, "a
  user-authored or imported skill is never auto-transitioned", and BUILTIN "is the only
  tier the curator mints" (139-141). The gate asks for that tier (143), and `load_skill`
  gives a document the tier its caller names: one loaded as builtin has a clean lineage
  and is promoted by its first use. `TaintStaysOut` keeps out every other tier.
* `curator/lifecycle.py` 75 asks for three *successful* uses of an active skill;
  `meets_active_bar` (132) for three uses of which half succeeded. `RetrievalIsEarned`
  counts uses.
* `core/events.py` 187-190: the result in `TurnFinished` is the one `run_turn` returns,
  and a consumer who reads it loses nothing. The result of a clean live run has no tool
  calls (`backends/pydantic_ai.py` 499). `ReportIsTrue` asks of such a turn that its
  events had them all.
* `core/events.py` 85: a `ToolCallStarted` is always paired with a later
  `ToolCallFinished`. A live run that breaks in a call leaves it open, and the run that
  replaces it sends nothing of calls. `TurnStream` allows it when `broken`.
* `plugins/loader.py` 238: `load_plugin` "returns a result rather than raising". It
  raises on a manifest or `mcp.json` that is not UTF-8 (117, 202) or has a number of
  thousands of digits, a SKILL.md that cannot be opened (160), a skills directory that
  cannot be listed (152), and digits in a front matter that `int()` refuses
  (`skills/frontmatter.py` 118). `LoadIsAccounted` is about loads that return.
* `backends/pydantic_ai.py` 76-78 wants authentication errors and rate limits to
  surface on the first attempt; a failure of any kind falls from the live to the
  measured to the plain run first. Tools that ran are run again, where the comment
  before (74-75) reasons that a retry repeats nothing that was billed (`ReportIsTrue` therefore
  bounds the report by the executions only).
* `FakeBackend`: its `cost_credits` are cumulative, so a token ledger fed with its
  results counts earlier turns again; a script is not cleared when it raises.
* `MCPServer.handle` "always returns a typed result", but an invoker's exception
  other than the signal for input escapes it. Of two discovers under way the older
  answer may be committed last. The client puts `_meta` into the params where the
  server looks for it beside them, so `MetaOK` sees none of ours.
* `memory/store.py`: SHORT is "dropped at turn end", which nothing does; decay of
  the in-memory store takes no notice of age, and two stores of one house each
  lower its LONG records. `SqliteMemoryStore` knows neither tenants nor a cap of
  its own.
* `plugins/loader.py`: the `Admission` it computes is not kept.
* `a2a/cards.py`: `emit_card` publishes dangerous tools an agent was given.
* `storage/markdown.py` 312-319 says a collision of names loses nothing; ids `a`,
  `a` and `a-1` go to two files.

## 4. Proofs

For every value of the constants (any runs, amounts, processes, agents, documents,
bounds), unless a hypothesis is named. Every invariant and every action property of
the passing runs is the conclusion of a theorem; what is left to TLC is below.

**`SumProofs`.** The community modules sum by a recursive function over the subsets of
a set, which `CHOOSE` picks: to say anything of a sum one must first show that there
is such a function (`SumExists`). The library's induction rules take a predicate as a
parameter, which the provers cannot instantiate; but the strict subsets of a finite
set are well-founded, so that a set of counterexamples has a smallest (`Smallest`),
and from that one a contradiction is drawn in first-order steps. So for sums, with
what a sum does when an index is added or its value changes (`SumMore`, `SumGiven`,
`SumGrows`), and in the same way for the walks of `Canvas`, the maximum of a set and
the order of a sample.

**`LedgerBillerProofs`.** `TypeCorrect`, `AuditExplains`, `OneCharge`, `KeepsPromise`
(the refinement of `Reservations`). The induction needs `AuditInv`: beyond
`HistoryExplains`, that every row of the history is of an issued reservation, so that
a new id has no past, and that a row that can still move has no later row; `OneCharge`
then follows from the life cycle, in which no state that is charged leads to one that
is. `AuditAddsUp` sums it: a step appends at most one row to the history, and what it
adds to the charges less the refunds is what it adds to the run's total (`Balanced`).

**`DurabilityProofs`.** `TypeCorrect`, `RecordsAreBacked`, `ChargesFollowTruth`, for
any number of hosts. The invariant `Inv` ties three things: the world (what the
biller's state says of the provider's truth), calls (one process at a time is calling
on an id, and its journal entry is still open), and each host (`IsTrue`: what it has
in hand agrees with the truth it read, at every place it can stand). The records are
backed although they may be stale because a charge that is settled is final.
`RecordsBalance`: every copy, not only the row, charges what its captures cost, because
any copy may be written back whole.
Under `OneHost` (there is one process, and it surfaces an interrupted call rather than
holding it) the record is the truth: `ResumingSpendsTheSame`, `OneHostForgetsNothing`,
and `ChargesExactlyOnce`, the safety half of the refinement of `ExactlyOnce`. Their
invariant `Solo` says where a call that landed is shown: by the record, or in the
hands of the host that will show it, until the run is closed. The hypothesis is that
of the run `durable_run`, and it is needed: `lost_update` refutes
`OneHostForgetsNothing` for two hosts, and `held_interrupted` shows a host that holds.

**`SkillsProofs`.** `TypeCorrect`, `TaintNeverRetrieved`, `RetrievalEarned`,
`RevertPossible`. The invariant says that every row *and every copy* is a good
skill (lineage tells what was consumed, a retrievable one is untainted, distilled or
loaded as builtin, and used, its parent is stored, with its body, origin and taints unless its
number was written again). The copies must be in it because a stale one is put back
whole; a good skill stays good because stored versions, uses, restored and rewritten
versions only grow, and a put of a copy keeps body, origin and taints of the row of its number,
or makes the number a rewritten one.

**`CanvasProofs`.** `TypeCorrect`, `BoardAppendOnly`, `TaintIsKept`,
`GatesFailClosed`. Every step leaves the board alone or lands one artifact on a
free id (`BoardSteps`), so the properties become conditions on what lands
(`LandingKeeps`). They need two facts more: what was appended for approval has
a gate (`Gates`), and what waits in a sink was made from what its agent has
read (`Sinks`). `TraversalsAlwaysAgree` is about the two recursive walks on any finite
board, whatever its parents: a walk up is a way without repetition (`WalkIsWay`), what
a search down finds is what every set closed under children must hold
(`DescendantsAre`); what one meets the other finds (`WalkComesDown`), and back because
a walk that passes a child of its own start stops there (`WalkPasses`).

**`TurnProofs`, `TurnStreamProofs`.** `TypeCorrect`, `ToolsArePermitted`,
`BudgetIsOne`. The invariant needs that a cached toolset is within the tools it is kept
under (`Narrowed`), so that what an earlier turn left cannot widen a later one, and
that an attempt in progress is one more than the empty completions (`Budget`).
`ReportsAreTrue` needs the books of the run in progress (`Books`): per tool, the calls
its parts say were executed are no more than the executions, and as many while nothing
was told of a retry; and that a native turn has shown a success for each execution
until a run is given up or a tool asks for a retry (`Matched`). `SuccessesWereExecutions` and `StreamsTellTheirResult` need what
has been told and is still to be told (`Told`): the events sent, followed by those a
reconstruction has planned, are sound with respect to the run. `StreamKeepsItsContract`
is the refinement of `TurnStream`: each event sent is one that its contract
allows, in every mode, on every path, after every fall-back.

**`HouseProofs`.**
* The registry: `RegistryTypeCorrect`, `NamesAreForGood`, `RoutesHold`. The two
  dictionaries are disjoint and hold each agent under its own name (`Registry`);
  hence each step keeps every name and its agent (`NamesKept`), which keeps true
  what was listed before (`StillListed`), and a route is what its list makes it.
* MCP: `McpTypeCorrect`, `BothAllowlistsHold`, `AnswersAreWhole`. The
  invariant is about the wire (`RequestOK`): a call of ours that is under way is
  in our allowlist, whichever server answers it, and each answer under way is one
  that a server gave, true to what it did.
* Cards and flows: `CardsTypeCorrect`, `CardsAreAuthentic`, `FlowsTypeCorrect`,
  `TokensStay`. Any signature a document carries was made by someone (`Carried`);
  a code comes back with the state of the flow whose verifier opens it
  (`CodesOK`), and a flow that is done never moves again (`DoneStays`).
* The partition: `SplitsAreForeseen`. A skill that joined knows its check, and a check
  says breach if its nearest neighbour among what it saw was near enough; so of two that
  are alike, one saw the other and was warned, or neither saw the other.
* Memory: `HousesAreApart`, `DecayIsSafe`. What a store holds it was given by its owner
  (`WithItsOwner`). The answer is the first part of an order that exists because the
  records are finitely many and `Outranks` orders them (`CanBeRanked`).
* The load of a plugin: `LoadsAreAccounted`. One invariant per step of the load: of the
  bundles so far those that are good were loaded and the others are errors
  (`BundlesAccounted`), the manifest and mcp.json once they are passed, and what was read
  of a bundle whose scripts are still to be listed (`BaseAccounted`). `LinesAreCounted` is the front matter's part: the lines
  counted key by key are all the lines.
* Meters: `MetersAddUp`. A turn adds to its agent's bucket what it adds to the totals
  (`SumOverGiven`, whether the agent is known or new), to the phases what it adds to the
  clock (`PhasesStillAddUp`); `PercentilesAreIn` is about the interpolation at any rank
  of any sample in order.
* The sum: `HouseIsItsParts` (the house refines each of its parts), so that what is
  proved of a part holds of the `HouseSpec` that the run checks, and from it
  `HouseTypeCorrect`.

Assumed are only the named assumptions of the modules (bounds are numbers, the
null id is no id, subsets are subsets, `foreign_skill` is a taint, canonical
names are their own canonical form, the lines of a document are a sequence of lines,
what stands for none is nothing else) and `OneHost` where it is named.

Two definitions have the form they have for the provers' sake, and mean what the code
does: an order is the sequence that is in order and not the result of `SortSeq`, which
they know nothing of (`Ranked`, `Sorted`), and `Walk` takes its two arguments one after
the other.

Checked by TLC only: `ImplementsExactlyOnce` and `TurnEnds`, for their liveness (the
safety half of the first is `ChargesExactlyOnce`); that fair behaviours exist at all
(ENABLED is out of the provers' reach); and the five violations, which are
counterexamples.

## 5. Not modelled

* WebMCP (`webmcp/tools.py`): the rendering of one response and its checks; what it
  admits goes through `Admit`, and nothing is kept.
* Tracing, configuration, lazy imports: attributes for an optional SDK, settings.
* The migration in `storage/sqlite.py`: its script and the version it stamps run in
  SQLite; what a crash between them does depends on SQLite's journal.
* The scanner's patterns, similarity of strings, wording of reports: text. Their
  verdicts are inputs (`Distil`, `Similarity`).
* `storage/markdown.py`: an export the program never reads back by itself.
* `evals/*`, `scripts/*`: drivers around the library, sequential, without state
  outside one call.
* The library that runs the agent, providers, issuers, browsers, embedders:
  external, by what the code makes of them.

## 6. Plan

Order: what moves money first, then what gives authority, then the rest.

1. *done* `LedgerBiller`, `Durability`.
2. *done* `Skills`.
3. *done* `Canvas`, with the calls of the media tools.
4. *done* `Turn`, with `TurnStream` as its abstract specification.
5. *done* `House`: registry, routing, MCP, memory, ledger, OAuth, cards, plugins.
6. *done* Proofs of every safety property of the runs.
7. More of what is there: `SqliteCaptures` as a second implementation of the
   capture half of `Reservations`; an ordered journal in `Durability`, for the
   exception that stops a resume halfway; an abstract append-only graph that
   `Canvas` refines.
