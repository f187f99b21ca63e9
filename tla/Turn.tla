-------------------------------- MODULE Turn --------------------------------
(***************************************************************************)
(* One turn after another through a backend.  backends/pydantic_ai.py runs *)
(* an agent against a provider on three paths: live, streamed in order to  *)
(* be measured, and plain; it changes path and tries again when a run      *)
(* fails.  backends/fake.py runs a script.  backends/streaming.py turns    *)
(* either into one stream of core/events.py.  Each tool an agent may call  *)
(* comes from guard/allowlist.py by way of a cache of toolsets.            *)
(***************************************************************************)
EXTENDS Integers, Sequences, FiniteSets

CONSTANTS
    Tool,               \* names a model may emit
    DangerousTools,     \* DANGEROUS_TOOLS
    Registry,           \* tools there is an implementation of
    AllowedTools,       \* the agent's fixed allowlist
    Declared,           \* what a turn may declare: NotDeclared or a set of tools
    NotDeclared,        \* None
    MeasureStreaming,   \* constructor argument of the backend
    MaxIterations,      \* of the run the fake backend was given
    MaxCalls,           \* bound: tool calls in one run of the agent
    MaxScriptedCalls,   \* bound: tool calls in the script of a fake turn
    MaxTurns            \* bound: turns asked for

MaxUpstreamAttempts == 3

ASSUME ToolAssumption ==
    /\ Registry \subseteq Tool
    /\ AllowedTools \subseteq Tool
    /\ Declared \ {NotDeclared} \subseteq SUBSET Tool
ASSUME PathAssumption == MeasureStreaming \in BOOLEAN
ASSUME BoundAssumption ==
    {MaxIterations, MaxCalls, MaxScriptedCalls, MaxTurns} \subseteq Nat

VARIABLES
    path,       \* where the turn is: "idle", "build", a kind of run, or "telling"
    request,    \* the mode it was asked in, what it declared and its effective tools
    toolset,    \* the tools of the agent that was built for it
    cache,      \* _toolset_cache
    log,        \* the calls of the run in progress, in order
    said,       \* what else that run has given: "text", "artifact"
    attempt,    \* of _call
    iterations, \* of the fake backend
    plan,       \* events the stream has still to yield
    events,     \* events the consumer was sent
    result,     \* of the turn, or NoResult
    ended,      \* how the last turn ended
    fell_back,  \* the live run of the turn failed
    executions, \* history: how often each tool ran in the turn
    empties,    \* history: empty completions that each kind of run has met
    untold,     \* history: a run was given up, or a tool that ran asked for a retry
    turns       \* turns asked for so far

asked == <<request, turns>>
locals == <<toolset, log, said, attempt, iterations>>
history == <<executions, empties, untold>>
vars == <<path, asked, cache, locals, plan, events, result, ended, fell_back, history>>

-----------------------------------------------------------------------------
(* Values. *)

Mode == {"blocking", "native", "fake", "reconstructed"}
Live == {"native", "blocking"}      \* modes of the Pydantic AI backend
Run == {"live", "measured", "plain"}
Outcome == {"success", "failed", "denied", "interrupted"}

\* A call part, and what came back for it: "running", "returned", "retry" for a
\* RetryPromptPart of a tool that ran, "refused" for one of a tool that never did.
Call == [tool : Tool, back : {"running", "returned", "retry", "refused"}]

NoResult == [said |-> {}, tool_calls |-> <<>>, is |-> "none"]

\* TurnResult: whether there is text and an artifact, and a record of each call.
TurnResult(what, tool_calls) == [said |-> what, tool_calls |-> tool_calls, is |-> "result"]

TurnStarted(streaming) == [kind |-> "turn_started", streaming |-> streaming]
TextDelta == [kind |-> "text_delta"]
ToolCallStarted(id, tool) == [kind |-> "tool_call_started", call_id |-> id, tool |-> tool]
ToolCallFinished(id, tool, outcome) ==
    [kind |-> "tool_call_finished", call_id |-> id, tool |-> tool, outcome |-> outcome]
ArtifactProduced == [kind |-> "artifact_produced"]
TurnFinished == [kind |-> "turn_finished"]

\* guard.effective_tools
EffectiveTools(fixed_allowlist, declared) ==
    ((IF declared = NotDeclared THEN fixed_allowlist ELSE declared) \cap fixed_allowlist)
        \ DangerousTools

Init ==
    /\ path = "idle"
    /\ request = [mode |-> "blocking", declared |-> {}, effective_tools |-> {}]
    /\ turns = 0
    /\ cache = [key \in {} |-> {}]
    /\ toolset = {} /\ log = <<>> /\ said = {} /\ attempt = 0 /\ iterations = 0
    /\ plan = <<>>
    /\ events = <<>>
    /\ result = NoResult
    /\ ended = "never"
    /\ fell_back = FALSE
    /\ executions = [t \in Tool |-> 0] /\ empties = [on \in Run |-> 0] /\ untold = FALSE

-----------------------------------------------------------------------------
(* Asking for a turn, and building its agent. *)

\* The host narrows what is declared and calls run_turn or stream_turn.
Begin(mode, declared) ==
    /\ path = "idle"
    /\ turns < MaxTurns
    /\ turns' = turns + 1
    /\ request' = [mode |-> mode, declared |-> declared,
                   effective_tools |-> EffectiveTools(AllowedTools, declared)]
    /\ path' = IF mode \in Live THEN "build" ELSE "script"
    /\ events' = IF mode = "native" THEN <<TurnStarted(TRUE)>> ELSE <<>>
    /\ result' = NoResult
    /\ ended' = "not"
    /\ fell_back' = FALSE
    /\ executions' = [t \in Tool |-> 0] /\ empties' = [on \in Run |-> 0] /\ untold' = FALSE
    /\ UNCHANGED <<cache, locals, plan>>

\* The coroutine is left, its variables with it.
Leaves(to) ==
    /\ path' = to
    /\ toolset' = {} /\ log' = <<>> /\ said' = {} /\ attempt' = 0 /\ iterations' = 0

\* An exception leaves run_turn or stream_turn.
Raises == Leaves("idle") /\ ended' = "error"

\* A run of the agent starts from nothing but the request.
Runs(on) ==
    /\ path' = on
    /\ log' = <<>> /\ said' = {}

ToolsFor == request.effective_tools \cap Registry

\* Fault: the toolset of the last turn that had one is the toolset.
ToolsetForAny ==
    IF ToolsFor = {} THEN {}
    ELSE IF DOMAIN cache # {} THEN cache[CHOOSE key \in DOMAIN cache : TRUE] ELSE ToolsFor

ToolsetFor ==
    IF ToolsFor = {} THEN {}
    ELSE IF request.effective_tools \in DOMAIN cache THEN cache[request.effective_tools]
    ELSE ToolsFor

FirstPath == IF MeasureStreaming THEN "measured" ELSE "plain"

\* _build_agent for the live run, and again for a run_turn.
BuildAgent ==
    /\ path = "build"
    /\ toolset' = ToolsetFor
    /\ cache' = IF ToolsFor = {} THEN cache
                ELSE [key \in DOMAIN cache \cup {request.effective_tools} |->
                        IF key = request.effective_tools THEN ToolsetFor ELSE cache[key]]
    /\ IF request.mode = "native" /\ ~ fell_back
       THEN Runs("live") /\ UNCHANGED attempt
       ELSE Runs(FirstPath) /\ attempt' = 1
    /\ UNCHANGED <<asked, iterations, plan, events, result, ended, fell_back, history>>

\* The agent cannot be put together.
BuildRefused ==
    /\ path = "build"
    /\ Raises
    /\ UNCHANGED <<asked, cache, plan, events, result, fell_back, history>>

-----------------------------------------------------------------------------
(* A run of the agent: the model, and the tools it calls. *)

\* Only a live run is watched.
Shows(event) == events' = IF path = "live" THEN Append(events, event) ELSE events

\* The model may emit a call to any name, whatever its schema says.
ModelCalls(tool) ==
    /\ path \in Run
    /\ Len(log) < MaxCalls
    /\ log' = Append(log, [tool |-> tool, back |-> "running"])
    /\ Shows(ToolCallStarted(Len(log), tool))
    /\ UNCHANGED <<path, asked, cache, toolset, said, attempt, iterations, plan, result, ended,
                   fell_back, history>>

\* Fault: what came back is not looked at.
OutcomeIgnored(back) == "success"

\* A RetryPromptPart is the FAILED signal, anything else is SUCCESS.
OutcomeOfResultPart(back) == IF back \in {"retry", "refused"} THEN "failed" ELSE "success"

\* The toolset answers the call: it runs the tool, or does not have it.
ToolReturns(i, back) ==
    /\ path \in Run
    /\ log[i].back = "running"
    /\ back = "refused" <=> log[i].tool \notin toolset
    /\ log' = [log EXCEPT ![i].back = back]
    /\ executions' = IF back = "refused" THEN executions
                     ELSE [executions EXCEPT ![log[i].tool] = @ + 1]
    /\ untold' = (untold \/ back = "retry")
    /\ Shows(ToolCallFinished(i - 1, log[i].tool, OutcomeOfResultPart(back)))
    /\ UNCHANGED <<path, asked, cache, toolset, said, attempt, iterations, plan, result, ended,
                   fell_back, empties>>

ModelSpeaks ==
    /\ path \in Run
    /\ "text" \notin said
    /\ said' = said \cup {"text"}
    /\ Shows(TextDelta)
    /\ UNCHANGED <<path, asked, cache, toolset, log, attempt, iterations, plan, result, ended,
                   fell_back, history>>

Settled == \A i \in DOMAIN log : log[i].back # "running"

-----------------------------------------------------------------------------
(* The end of a run. *)

\* Fault: a call that has an id counts as executed.
ToolCallsOfEmitted ==
    [i \in DOMAIN log |-> [tool |-> log[i].tool, executed |-> TRUE, outcome |-> "success"]]

\* The records run_turn makes of a run: executed if a ToolReturnPart has the id.
ToolCallsOf ==
    [i \in DOMAIN log |->
        [tool |-> log[i].tool, executed |-> log[i].back = "returned", outcome |-> "success"]]

\* Each kind of thing a result holds, as the one event that carries it.
Carried(res, what, event) == IF what \in res.said THEN <<event>> ELSE <<>>

\* A result is returned, or there is a stream to tell it.
Answer(res, telling) ==
    /\ result' = res
    /\ plan' = telling
    /\ IF telling = <<>> THEN Leaves("idle") /\ ended' = "result"
                         ELSE Leaves("telling") /\ UNCHANGED ended

\* Fault: a stream that broke is told its end alone.
RunAnswersUntold ==
    /\ path \in {"measured", "plain"}
    /\ Settled
    /\ Answer(TurnResult(said, ToolCallsOf),
              IF request.mode = "native" THEN <<TurnFinished>> ELSE <<>>)
    /\ UNCHANGED <<asked, cache, events, fell_back, history>>

\* run_turn has a result; a stream that broke is told its text and its end.
RunAnswers ==
    /\ path \in {"measured", "plain"}
    /\ Settled
    /\ LET res == TurnResult(said, ToolCallsOf)
       IN  Answer(res, IF request.mode = "native"
                       THEN Carried(res, "text", TextDelta) \o <<TurnFinished>> ELSE <<>>)
    /\ UNCHANGED <<asked, cache, events, fell_back, history>>

\* The result of a live run carries no tool calls.
LiveAnswers ==
    /\ path = "live"
    /\ Settled
    /\ Answer(TurnResult(said, <<>>), <<TurnFinished>>)
    /\ UNCHANGED <<asked, cache, events, fell_back, history>>

\* A run ends in an exception.  An empty completion is an answer of the
\* provider to settled calls; anything else may come at any time, also out of
\* a tool, and of the calls that were running some have executed then.
Dies(kind) ==
    /\ untold' = TRUE
    /\ \/ kind = "empty" /\ Settled /\ UNCHANGED executions
       \/ /\ kind = "other"
          /\ \E ran \in SUBSET {i \in DOMAIN log :
                                    log[i].back = "running" /\ log[i].tool \in toolset} :
               executions' = [t \in Tool |->
                                executions[t] + Cardinality({i \in ran : log[i].tool = t})]

\* A run met an empty completion.
MeetsEmpty(on) == empties' = [empties EXCEPT ![on] = @ + 1]

\* stream_turn: whatever it was, the turn is run again by run_turn, whose
\* attempts begin anew.
LiveFails(kind) ==
    /\ path = "live"
    /\ Dies(kind)
    /\ IF kind = "empty" THEN MeetsEmpty("live") ELSE UNCHANGED empties
    /\ Runs("build")
    /\ fell_back' = TRUE
    /\ UNCHANGED <<asked, cache, toolset, attempt, iterations, plan, events, result, ended>>

\* _call_once: anything but an empty completion is put down to the measuring.
MeasuredFails ==
    /\ path = "measured"
    /\ Dies("other")
    /\ Runs("plain")
    /\ UNCHANGED <<asked, cache, toolset, attempt, iterations, plan, events, result, ended,
                   fell_back, empties>>

\* Fault: one attempt more than there is a budget for.
MayRetryOnceMore == attempt <= MaxUpstreamAttempts

MayRetry == attempt < MaxUpstreamAttempts

\* _call: an empty completion is met by another attempt, three in all.
CallMeetsEmpty ==
    /\ path \in {"measured", "plain"}
    /\ Dies("empty")
    /\ MeetsEmpty(path)
    /\ IF MayRetry
       THEN Runs(FirstPath) /\ attempt' = attempt + 1 /\ UNCHANGED <<toolset, iterations, ended>>
       ELSE Raises
    /\ UNCHANGED <<asked, cache, plan, events, result, fell_back>>

\* Fault: every failure is tried again.
PlainFailsAgain ==
    /\ path = "plain"
    /\ Dies("other")
    /\ Runs("plain")
    /\ UNCHANGED <<asked, cache, toolset, attempt, iterations, plan, events, result, ended,
                   fell_back, empties>>

PlainFails ==
    /\ path = "plain"
    /\ Dies("other")
    /\ Raises
    /\ UNCHANGED <<asked, cache, plan, events, result, fell_back, empties>>

-----------------------------------------------------------------------------
(* The fake backend: a script, an iteration at a time. *)

FakeIterates ==
    /\ path = "script"
    /\ IF iterations < MaxIterations
       THEN iterations' = iterations + 1 /\ UNCHANGED <<path, toolset, log, said, attempt, ended>>
       ELSE Raises
    /\ UNCHANGED <<asked, cache, plan, events, result, fell_back, history>>

\* A scripted call is metered and recorded with its outcome; or it is refused
\* out loud, or the biller raises, and leaves the script where it is.
FakeCalls(tool, outcome) ==
    /\ path = "script"
    /\ iterations > 0 /\ Len(log) < MaxScriptedCalls
    /\ \/ /\ tool \in request.effective_tools
          /\ log' = Append(log, [tool |-> tool, executed |-> outcome # "denied",
                                 outcome |-> outcome])
          /\ executions' =
                [executions EXCEPT ![tool] = @ + (IF outcome = "denied" THEN 0 ELSE 1)]
          /\ UNCHANGED <<path, toolset, said, attempt, iterations, ended>>
       \/ Raises /\ UNCHANGED executions
    /\ UNCHANGED <<asked, cache, plan, events, result, fell_back, empties, untold>>

FakeGives(what) ==
    /\ path = "script"
    /\ iterations > 0
    /\ said' = said \cup {what}
    /\ UNCHANGED <<path, asked, cache, toolset, log, attempt, iterations, plan, events, result,
                   ended, fell_back, history>>

\* Fault: a call that was denied is announced and left at that.
ReconstructedUnpaired(res) ==
    LET n == Len(res.tool_calls)
        pair(call, i) == <<ToolCallStarted(i - 1, call.tool)>> \o
            (IF call.executed THEN <<ToolCallFinished(i - 1, call.tool, call.outcome)>> ELSE <<>>)
    IN  <<TurnStarted(FALSE)>> \o (IF n = 0 THEN <<>> ELSE pair(res.tool_calls[1], 1))
            \o Carried(res, "text", TextDelta) \o <<TurnFinished>>

\* _reconstruct: a start, a pair for each record, what there is, and the end.
Reconstructed(res) ==
    LET calls == res.tool_calls
        pairs == [k \in 1 .. 2 * Len(calls) |->
                    LET i == (k - 1) \div 2
                    IN  IF k % 2 = 1 THEN ToolCallStarted(i, calls[i + 1].tool)
                        ELSE ToolCallFinished(i, calls[i + 1].tool, calls[i + 1].outcome)]
    IN  <<TurnStarted(FALSE)>> \o pairs \o Carried(res, "artifact", ArtifactProduced)
            \o Carried(res, "text", TextDelta) \o <<TurnFinished>>

FakeAnswers ==
    /\ path = "script"
    /\ LET res == TurnResult(said, log)
       IN  Answer(res, IF request.mode = "reconstructed" THEN Reconstructed(res) ELSE <<>>)
    /\ UNCHANGED <<asked, cache, events, fell_back, history>>

-----------------------------------------------------------------------------
(* The stream. *)

Yield ==
    /\ path = "telling"
    /\ events' = Append(events, Head(plan))
    /\ plan' = Tail(plan)
    /\ IF plan' = <<>> THEN path' = "idle" /\ ended' = "result" ELSE UNCHANGED <<path, ended>>
    /\ UNCHANGED <<asked, cache, locals, result, fell_back, history>>

\* Fault: what was going to be yielded is still there.
AbandonLeft ==
    /\ path # "idle"
    /\ Leaves("idle")
    /\ ended' = "abandoned"
    /\ UNCHANGED <<asked, cache, plan, events, result, fell_back, history>>

\* The consumer goes away, or the task is cancelled: not an Exception, so
\* nothing is tried again.
Abandon ==
    /\ path # "idle"
    /\ Leaves("idle")
    /\ ended' = "abandoned"
    /\ plan' = <<>>
    /\ UNCHANGED <<asked, cache, events, result, fell_back, history>>

-----------------------------------------------------------------------------

\* What the backend, the provider and the stream do without being asked.
Proceed ==
    \/ BuildAgent \/ BuildRefused
    \/ \E t \in Tool : ModelCalls(t)
    \/ \E i \in DOMAIN log, back \in {"returned", "retry", "refused"} : ToolReturns(i, back)
    \/ ModelSpeaks
    \/ RunAnswers \/ LiveAnswers
    \/ \E kind \in {"empty", "other"} : LiveFails(kind)
    \/ MeasuredFails \/ CallMeetsEmpty \/ PlainFails
    \/ FakeIterates
    \/ \E t \in Tool, outcome \in Outcome : FakeCalls(t, outcome)
    \/ \E what \in {"text", "artifact"} : FakeGives(what)
    \/ FakeAnswers
    \/ Yield

Next ==
    \/ \E mode \in Mode, declared \in Declared : Begin(mode, declared)
    \/ Proceed
    \/ Abandon

\* The provider answers or its client times out, a script and a run of the
\* agent are finite, and the consumer that stays takes the next event.
Spec == Init /\ [][Next]_vars /\ WF_vars(Proceed)

-----------------------------------------------------------------------------
(* Properties. *)

FakeRecord == [tool : Tool, executed : BOOLEAN, outcome : Outcome]

\* Type invariant: in a run the log is of calls, in a script of records, and
\* only a turn that is being told has events planned.
TypeOK ==
    /\ path \in {"idle", "build", "script", "telling"} \cup Run
    /\ request \in [mode : Mode, declared : Declared \cup {{}}, effective_tools : SUBSET Tool]
    /\ toolset \subseteq Tool
    /\ DOMAIN cache \subseteq SUBSET Tool
    /\ \A key \in DOMAIN cache : cache[key] \subseteq Tool
    /\ path \in Run => log \in Seq(Call)
    /\ path = "script" => log \in Seq(FakeRecord)
    /\ said \subseteq {"text", "artifact"}
    /\ attempt \in 0 .. MaxUpstreamAttempts
    /\ iterations \in 0 .. MaxIterations
    /\ path = "telling" <=> plan # <<>>
    /\ fell_back \in BOOLEAN /\ untold \in BOOLEAN
    /\ executions \in [Tool -> Nat]
    /\ empties \in [Run -> Nat]
    /\ turns \in 0 .. MaxTurns

\* "It never computes its own toolset": through the cache that turns share, the
\* second agent of a turn that fell back, and every retry, no tool runs that
\* the allowlist does not hold, the turn did not declare, or is dangerous.
OnlyPermitted ==
    \A t \in Tool : executions[t] > 0 =>
        /\ t \in AllowedTools \ DangerousTools
        /\ request.declared = NotDeclared \/ t \in request.declared

\* Empty completions that _call has met, measuring and not.
CallEmpties == empties["measured"] + empties["plain"]

\* _call: the measured and the plain path draw on one budget.  However a turn
\* goes from the one to the other and back, each attempt but the one in
\* progress was spent on one empty completion of either, and the third ends the
\* turn.  A live run is no attempt: what it meets is not counted.
OneBudget ==
    /\ path \in {"measured", "plain"} => attempt = CallEmpties + 1
    /\ CallEmpties <= MaxUpstreamAttempts
    /\ CallEmpties = MaxUpstreamAttempts => ended \in {"error", "abandoned"}

\* "The single point every turn's model invocation passes through, so both the
\* streamed and the plain path are covered by one budget rather than two": no
\* turn meets more empty completions than there are attempts.  Violated: the
\* live run of stream_turn does not pass through _call.
EveryEmptyCounts == empties["live"] + CallEmpties <= MaxUpstreamAttempts

Executed(t) ==
    Cardinality({i \in DOMAIN result.tool_calls :
                    result.tool_calls[i].tool = t /\ result.tool_calls[i].executed})

Sent(kind) == {k \in DOMAIN events : events[k].kind = kind}

\* Events that say of a tool that a call of it succeeded.
ShownSuccesses(t) ==
    {k \in Sent("tool_call_finished") : events[k].tool = t /\ events[k].outcome = "success"}

\* "executed is what makes tool_calls mean the same thing here as in
\* FakeBackend": a record says executed only of a call that ran, on either
\* backend, whatever the turn fell back from or tried again.  And no execution
\* is kept from the caller: the records of a fake turn, and of a blocking one
\* that took a single run none of whose tools asked for a retry, have them all;
\* a native one of such a run showed them all in its events.  The result of a
\* native run that went well has no records (pydantic_ai.py:499), though
\* events.py:187-190 says it is the one run_turn returns.
ReportIsTrue ==
    result.is = "result" =>
        \A t \in Tool :
            /\ Executed(t) <= executions[t]
            /\ \/ request.mode \in {"fake", "reconstructed"}
               \/ request.mode = "blocking" /\ ~ untold
               => Executed(t) = executions[t]
            /\ request.mode = "native" /\ ~ untold =>
                Cardinality(ShownSuccesses(t)) = executions[t]

\* A consumer is not shown a success for a call that never ran, live or
\* reconstructed: the events that say so are no more than the executions.
ShownAsDone == \A t \in Tool : Cardinality(ShownSuccesses(t)) <= executions[t]

\* A stream that ended tells its result: text in the one is text in the other
\* unless a live run broke, and a reconstructed stream has a call and an
\* artifact for each in the result.
StreamTellsResult ==
    ended = "result" /\ events # <<>> =>
        /\ "text" \in result.said => Sent("text_delta") # {}
        /\ Sent("text_delta") # {} /\ ~ fell_back => "text" \in result.said
        /\ request.mode = "reconstructed" =>
            /\ Cardinality(Sent("tool_call_started")) = Len(result.tool_calls)
            /\ Sent("artifact_produced") # {} <=> "artifact" \in result.said

Opened == {events[k].call_id : k \in Sent("tool_call_started")}
Closed == {events[k].call_id : k \in Sent("tool_call_finished")}

Stage == IF events = <<>> THEN "quiet"
         ELSE IF events[Len(events)] = TurnFinished THEN "finished" ELSE "started"

Stream == INSTANCE TurnStream WITH stage <- Stage, open <- Opened \ Closed, broken <- fell_back

\* The streams of native and of reconstructed turns keep the contract of
\* core/events.py, but for the calls a live run left open when it broke: what
\* replaces it sends nothing of calls, so "always paired with a later
\* ToolCallFinished" (events.py:85) does not hold of them.
ImplementsStream == Stream!Spec

\* Every turn ends: with a result, an exception, or because it was abandoned.
TurnEnds == path # "idle" ~> path = "idle"
=============================================================================
