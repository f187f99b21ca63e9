----------------------------- MODULE TurnProofs -----------------------------
(***************************************************************************)
(* Theorems about Turn, for any tools, allowlist, declarations and bounds: *)
(* its types, the one budget of attempts, and that no tool runs which the  *)
(* turn was not given.  What its records hold is kept here for the proofs  *)
(* about its reports, in TurnStreamProofs.                                 *)
(***************************************************************************)
EXTENDS Turn, FiniteSetTheorems, SequenceTheorems, TLAPS

\* The parts of the type invariant that steps disturb together.
Where ==
    /\ path \in {"idle", "build", "script", "telling"} \cup Run
    /\ path \in Run => log \in Seq(Call)
    /\ path = "script" => log \in Seq(FakeRecord)
    /\ path = "telling" <=> plan # <<>>

Requested ==
    request \in [mode : Mode, declared : Declared \cup {{}}, effective_tools : SUBSET Tool]

Kept ==
    /\ toolset \subseteq Tool
    /\ DOMAIN cache \subseteq SUBSET Tool
    /\ \A key \in DOMAIN cache : cache[key] \subseteq Tool

Noted ==
    /\ said \subseteq {"text", "artifact"}
    /\ fell_back \in BOOLEAN /\ untold \in BOOLEAN
    /\ executions \in [Tool -> Nat]

Counted ==
    /\ attempt \in 0 .. MaxUpstreamAttempts
    /\ empties \in [Run -> Nat]
    /\ iterations \in 0 .. MaxIterations
    /\ turns \in 0 .. MaxTurns

\* Attempts before the first, and the ones there is still room for.
Budget ==
    /\ CallEmpties \in 0 .. MaxUpstreamAttempts
    /\ path \in {"measured", "plain"} => attempt = CallEmpties + 1
    /\ path \in {"build", "live", "script"} => CallEmpties = 0
    /\ path # "idle" => CallEmpties < MaxUpstreamAttempts
    /\ CallEmpties = MaxUpstreamAttempts => ended \in {"error", "abandoned"}

\* What a turn is given, a toolset that was kept included, and what a turn
\* that is over leaves.
Narrowed ==
    /\ request.effective_tools \subseteq AllowedTools \ DangerousTools
    /\ request.declared = NotDeclared \/ request.effective_tools \subseteq request.declared
    /\ \A key \in DOMAIN cache : cache[key] \subseteq key
    /\ toolset \subseteq request.effective_tools
    /\ path \in {"idle", "telling"} => toolset = {} /\ log = <<>>
    /\ \A t \in Tool : executions[t] > 0 => t \in request.effective_tools

\* The inductive invariant.
Inv == Where /\ Requested /\ Kept /\ Noted /\ Counted /\ Budget /\ Narrowed

LEMMA TypeParts == TypeOK <=> Where /\ Requested /\ Kept /\ Noted /\ Counted
BY DEF TypeOK, Where, Requested, Kept, Noted, Counted

USE DEF Run, Live, MaxUpstreamAttempts

-----------------------------------------------------------------------------
(* The initial state, and what the helpers give. *)

\* Positions of a sequence are finitely many, and counted by a natural number.
LEMMA PositionsAreFinite ==
    ASSUME NEW S, NEW s \in Seq(S), NEW K \in SUBSET DOMAIN s
    PROVE  IsFiniteSet(K) /\ Cardinality(K) \in Nat
<1>1. DOMAIN s = 1 .. Len(s) /\ Len(s) \in Nat
  BY LenProperties
<1>2. IsFiniteSet(1 .. Len(s))
  BY <1>1, FS_Interval
<1>3. IsFiniteSet(K)
  BY <1>1, <1>2, FS_Subset
<1> QED
  BY <1>3, FS_CardinalityType

\* No empty completions are none that _call met.
LEMMA NoneMet ==
    ASSUME empties = [on \in Run |-> 0]
    PROVE  empties \in [Run -> Nat] /\ CallEmpties = 0
<1>1. empties["measured"] = 0 /\ empties["plain"] = 0
  OBVIOUS
<1> QED
  BY <1>1 DEF CallEmpties

LEMMA InitInv == Init => Inv
<1> SUFFICES ASSUME Init PROVE Inv
  OBVIOUS
<1>0. empties \in [Run -> Nat] /\ CallEmpties = 0
  BY NoneMet DEF Init
<1>1. Where /\ Budget /\ Narrowed
  BY <1>0 DEF Init, Where, Budget, Narrowed
<1>2. Requested
  BY DEF Init, Requested, Mode
<1>3. Kept /\ Noted
  BY DEF Init, Kept, Noted
<1>4. Counted
  BY <1>0, BoundAssumption DEF Init, Counted
<1> QED
  BY <1>1, <1>2, <1>3, <1>4 DEF Inv

\* guard.effective_tools only ever narrows.
LEMMA EffectiveIsNarrow ==
    ASSUME NEW declared \in Declared
    PROVE  LET tools == EffectiveTools(AllowedTools, declared)
           IN  /\ tools \subseteq Tool
               /\ tools \subseteq AllowedTools \ DangerousTools
               /\ declared = NotDeclared \/ tools \subseteq declared
BY ToolAssumption DEF EffectiveTools

\* A toolset is within what the request permits, built for it or kept.
LEMMA ToolsetIsNarrow ==
    ASSUME Inv
    PROVE  ToolsetFor \subseteq request.effective_tools
BY DEF Inv, Narrowed, ToolsetFor, ToolsFor

\* A coroutine that is left at an end of a run keeps its invariant.
LEMMA LeavesInv ==
    ASSUME Inv, NEW to \in {"idle", "telling"}, Leaves(to), to = "telling" <=> plan' # <<>>,
           UNCHANGED <<request, turns, cache, fell_back>>,
           untold' \in BOOLEAN, executions' \in [Tool -> Nat],
           \A t \in Tool : executions'[t] > 0 => t \in request.effective_tools,
           empties' \in [Run -> Nat], CallEmpties' \in 0 .. MaxUpstreamAttempts,
           to = "telling" => CallEmpties' < MaxUpstreamAttempts,
           CallEmpties' = MaxUpstreamAttempts => ended' \in {"error", "abandoned"}
    PROVE  Inv'
<1>1. Where' /\ Budget'
  BY DEF Leaves, Where, Budget
<1>2. Requested' /\ Kept' /\ Noted'
  BY DEF Inv, Leaves, Requested, Kept, Noted
<1>3. Counted'
  BY BoundAssumption DEF Inv, Leaves, Counted
<1>4. Narrowed'
  BY DEF Inv, Leaves, Narrowed
<1> QED
  BY <1>1, <1>2, <1>3, <1>4 DEF Inv

\* A run that starts from nothing keeps it, whatever it starts after.
LEMMA RunsInv ==
    ASSUME Inv, NEW to \in Run \cup {"build"}, Runs(to), plan' = <<>>,
           UNCHANGED <<request, turns, iterations>>,
           Kept', toolset' \subseteq request.effective_tools,
           \A key \in DOMAIN cache' : cache'[key] \subseteq key,
           fell_back' \in BOOLEAN, untold' \in BOOLEAN, executions' \in [Tool -> Nat],
           \A t \in Tool : executions'[t] > 0 => t \in request.effective_tools,
           attempt' \in 0 .. MaxUpstreamAttempts, empties' \in [Run -> Nat],
           CallEmpties' \in Nat, CallEmpties' < MaxUpstreamAttempts,
           to \in {"measured", "plain"} => attempt' = CallEmpties' + 1,
           to \in {"build", "live"} => CallEmpties' = 0
    PROVE  Inv'
<1>1. Where'
  BY DEF Runs, Where
<1>5. Budget'
  <2>1. path' = to
    BY DEF Runs
  <2>2. CallEmpties' # MaxUpstreamAttempts /\ CallEmpties' \in 0 .. MaxUpstreamAttempts
    OBVIOUS
  <2>3. path' \in {"measured", "plain"} => attempt' = CallEmpties' + 1
    BY <2>1
  <2>4. path' \in {"build", "live", "script"} => CallEmpties' = 0
    BY <2>1
  <2> QED
    BY <2>2, <2>3, <2>4 DEF Budget
<1>2. Requested' /\ Kept' /\ Noted'
  BY DEF Inv, Runs, Requested, Noted
<1>3. Counted'
  BY BoundAssumption DEF Inv, Counted
<1>4. Narrowed'
  BY DEF Inv, Runs, Narrowed
<1> QED
  BY <1>1, <1>2, <1>3, <1>4, <1>5 DEF Inv

\* What a run that ends in an exception may still have executed: some of the
\* calls that were running, none of a tool that was not given.
LEMMA DiesExecutes ==
    ASSUME Inv, path \in Run, NEW kind, Dies(kind)
    PROVE  /\ untold' \in BOOLEAN
           /\ executions' \in [Tool -> Nat]
           /\ \A t \in Tool : executions'[t] >= executions[t]
           /\ \A t \in Tool : executions'[t] > 0 => t \in request.effective_tools
<1>0. /\ executions \in [Tool -> Nat] /\ log \in Seq(Call)
      /\ toolset \subseteq request.effective_tools
      /\ \A t \in Tool : executions[t] > 0 => t \in request.effective_tools
  BY DEF Inv, Noted, Where, Narrowed
<1>1. CASE UNCHANGED executions
  BY <1>0, <1>1 DEF Dies
<1>2. ASSUME NEW ran \in SUBSET {i \in DOMAIN log :
                                    log[i].back = "running" /\ log[i].tool \in toolset},
             executions' = [t \in Tool |->
                                executions[t] + Cardinality({i \in ran : log[i].tool = t})]
      PROVE  /\ executions' \in [Tool -> Nat]
             /\ \A t \in Tool : executions'[t] >= executions[t]
             /\ \A t \in Tool : executions'[t] > 0 => t \in request.effective_tools
  <2> DEFINE Ran(t) == {i \in ran : log[i].tool = t}
  <2>1. ASSUME NEW t \in Tool
        PROVE  Cardinality(Ran(t)) \in Nat
    <3>1. Ran(t) \in SUBSET DOMAIN log
      OBVIOUS
    <3> QED
      BY <1>0, <3>1, PositionsAreFinite
  <2>2. ASSUME NEW t \in Tool, t \notin toolset
        PROVE  Cardinality(Ran(t)) = 0
    <3>1. Ran(t) = {}
      BY <2>2
    <3> QED
      BY <3>1, FS_EmptySet
  <2>3. \A t \in Tool : executions'[t] = executions[t] + Cardinality(Ran(t))
    BY <1>2
  <2> HIDE DEF Ran
  <2>4. executions' \in [Tool -> Nat]
    <3>1. \A t \in Tool : executions[t] + Cardinality(Ran(t)) \in Nat
      BY <1>0, <2>1
    <3>2. executions' = [t \in Tool |-> executions[t] + Cardinality(Ran(t))]
      BY <1>2 DEF Ran
    <3> QED
      BY <3>1, <3>2
  <2> QED
    BY <1>0, <2>1, <2>2, <2>3, <2>4
<1> QED
  BY <1>1, <1>2, <1>0 DEF Dies

\* One more empty completion of _call, or one of the live run.
LEMMA MetMore ==
    ASSUME empties \in [Run -> Nat], NEW on \in Run, MeetsEmpty(on)
    PROVE  /\ empties' \in [Run -> Nat]
           /\ CallEmpties' = CallEmpties + (IF on = "live" THEN 0 ELSE 1)
BY DEF MeetsEmpty, CallEmpties

-----------------------------------------------------------------------------
(* Every step keeps the invariant. *)

LEMMA BeginInv ==
    ASSUME Inv, NEW mode \in Mode, NEW declared \in Declared, Begin(mode, declared)
    PROVE  Inv'
<1> DEFINE tools == EffectiveTools(AllowedTools, declared)
<1>1. request' = [mode |-> mode, declared |-> declared, effective_tools |-> tools]
  BY DEF Begin
<1>2. /\ tools \subseteq Tool
      /\ tools \subseteq AllowedTools \ DangerousTools
      /\ declared = NotDeclared \/ tools \subseteq declared
  BY EffectiveIsNarrow
<1>3. toolset = {} /\ log = <<>> /\ plan = <<>>
  BY DEF Inv, Where, Narrowed, Begin
<1> HIDE DEF tools
<1>4. Where' /\ Requested' /\ Kept' /\ Noted'
  <2>1. Where'
    BY <1>3 DEF Begin, Where, locals
  <2>2. Requested'
    BY <1>1, <1>2 DEF Requested
  <2>3. Kept' /\ Noted'
    BY DEF Inv, Begin, Kept, Noted, locals
  <2> QED
    BY <2>1, <2>2, <2>3
<1>8. empties' \in [Run -> Nat] /\ CallEmpties' = 0
  <2>1. empties' = [on \in Run |-> 0]
    BY DEF Begin
  <2>2. empties'["measured"] = 0 /\ empties'["plain"] = 0
    BY <2>1
  <2> QED
    BY <2>1, <2>2 DEF CallEmpties
<1>5. Counted'
  BY <1>8, BoundAssumption DEF Inv, Begin, Counted, locals
<1>6. Budget'
  BY <1>8 DEF Begin, Budget
<1>7. Narrowed'
  BY <1>1, <1>2, <1>3 DEF Inv, Narrowed, Begin, locals
<1> QED
  BY <1>4, <1>5, <1>6, <1>7 DEF Inv

LEMMA BuildInv ==
    ASSUME Inv, BuildAgent
    PROVE  Inv'
<1>1. toolset' = ToolsetFor /\ ToolsetFor \subseteq request.effective_tools
  BY ToolsetIsNarrow DEF BuildAgent
<1>2. request.effective_tools \in SUBSET Tool
  BY DEF Inv, Requested
<1>3. /\ \A key \in DOMAIN cache' : cache'[key] \subseteq key
      /\ DOMAIN cache' \subseteq SUBSET Tool
  <2>1. CASE ToolsFor = {}
    BY <2>1 DEF BuildAgent, Inv, Kept, Narrowed
  <2>2. CASE ToolsFor # {}
    BY <1>1, <1>2, <2>2 DEF BuildAgent, Inv, Kept, Narrowed
  <2> QED
    BY <2>1, <2>2
<1>4. Kept'
  BY <1>1, <1>2, <1>3 DEF Kept
<1>5. plan' = <<>> /\ CallEmpties' = 0 /\ empties' \in [Run -> Nat]
  BY DEF BuildAgent, Inv, Where, Budget, Counted, CallEmpties, history
<1>6. /\ UNCHANGED <<request, turns, iterations, fell_back, untold, executions>>
      /\ fell_back \in BOOLEAN /\ untold \in BOOLEAN /\ executions \in [Tool -> Nat]
      /\ \A t \in Tool : executions[t] > 0 => t \in request.effective_tools
  BY DEF BuildAgent, Inv, Noted, Narrowed, asked, history
<1>7. CASE request.mode = "native" /\ ~ fell_back
  <2>1. Runs("live") /\ attempt' \in 0 .. MaxUpstreamAttempts
    BY <1>7 DEF BuildAgent, Inv, Counted
  <2> QED
    BY <1>1, <1>3, <1>4, <1>5, <1>6, <2>1, RunsInv
<1>8. CASE ~ (request.mode = "native" /\ ~ fell_back)
  <2>1. Runs(FirstPath) /\ attempt' = 1 /\ FirstPath \in {"measured", "plain"}
    BY <1>8 DEF BuildAgent, FirstPath
  <2> QED
    BY <1>1, <1>3, <1>4, <1>5, <1>6, <2>1, RunsInv
<1> QED
  BY <1>7, <1>8

\* An exception out of the backend, or the consumer's own leave, ends the turn.
LEMMA EndsInv ==
    ASSUME Inv, Leaves("idle"), plan' = <<>>, ended' \in {"error", "abandoned"},
           UNCHANGED <<request, turns, cache, fell_back>>,
           untold' \in BOOLEAN, executions' \in [Tool -> Nat],
           \A t \in Tool : executions'[t] > 0 => t \in request.effective_tools,
           empties' \in [Run -> Nat], CallEmpties' \in 0 .. MaxUpstreamAttempts
    PROVE  Inv'
BY LeavesInv

\* What a step that executes nothing and gives up nothing hands on.
LEMMA HistoryKept ==
    ASSUME Inv, UNCHANGED history
    PROVE  /\ untold' \in BOOLEAN
           /\ executions' \in [Tool -> Nat]
           /\ \A t \in Tool : executions'[t] > 0 => t \in request.effective_tools
           /\ empties' \in [Run -> Nat]
           /\ CallEmpties' = CallEmpties /\ CallEmpties \in 0 .. MaxUpstreamAttempts
BY DEF Inv, Noted, Counted, Budget, CallEmpties, Narrowed, history

LEMMA RefusedInv ==
    ASSUME Inv, BuildRefused
    PROVE  Inv'
<1>1. plan' = <<>>
  BY DEF Inv, Where, BuildRefused
<1> QED
  BY <1>1, HistoryKept, EndsInv DEF BuildRefused, Raises, asked

LEMMA AbandonInv ==
    ASSUME Inv, Abandon
    PROVE  Inv'
BY HistoryKept, EndsInv DEF Abandon, asked

\* A run goes on: the log has one part more, or another ending.
LEMMA GoesOnInv ==
    ASSUME Inv, path \in Run, log' \in Seq(Call), said' \subseteq {"text", "artifact"},
           UNCHANGED <<path, asked, cache, toolset, attempt, iterations, plan, ended,
                       fell_back, empties>>,
           untold' \in BOOLEAN, executions' \in [Tool -> Nat],
           \A t \in Tool : executions'[t] > 0 => t \in request.effective_tools
    PROVE  Inv'
<1>1. Where'
  BY DEF Inv, Where
<1>2. Requested' /\ Kept' /\ Noted' /\ Counted'
  BY DEF Inv, Requested, Kept, Noted, Counted, asked
<1>3. Budget'
  BY DEF Inv, Budget, CallEmpties
<1>4. Narrowed'
  BY DEF Inv, Narrowed, asked
<1> QED
  BY <1>1, <1>2, <1>3, <1>4 DEF Inv

LEMMA CallsInv ==
    ASSUME Inv, NEW tool \in Tool, ModelCalls(tool)
    PROVE  Inv'
<1>1. log \in Seq(Call) /\ said \subseteq {"text", "artifact"}
  BY DEF Inv, Where, Noted, ModelCalls
<1>2. [tool |-> tool, back |-> "running"] \in Call
  BY DEF Call
<1>3. log' \in Seq(Call) /\ said' \subseteq {"text", "artifact"}
  BY <1>1, <1>2 DEF ModelCalls
<1> QED
  BY <1>3, HistoryKept, GoesOnInv DEF ModelCalls, history

LEMMA SpeaksInv ==
    ASSUME Inv, ModelSpeaks
    PROVE  Inv'
BY HistoryKept, GoesOnInv DEF ModelSpeaks, history, Inv, Where, Noted

LEMMA ReturnInv ==
    ASSUME Inv, NEW i \in DOMAIN log, NEW back \in {"returned", "retry", "refused"},
           ToolReturns(i, back)
    PROVE  Inv'
<1>1. log \in Seq(Call) /\ log[i] \in Call
  BY DEF Inv, Where, ToolReturns
<1>2. log[i].tool \in Tool
  BY <1>1 DEF Call
<1>3. log' \in Seq(Call)
  <2>1. [log[i] EXCEPT !.back = back] \in Call
    BY <1>1 DEF Call
  <2> QED
    BY <1>1, <2>1 DEF ToolReturns
<1>4. /\ executions' \in [Tool -> Nat]
      /\ \A t \in Tool : executions'[t] > 0 => t \in request.effective_tools
  <2>1. CASE back = "refused"
    BY <2>1 DEF ToolReturns, Inv, Noted, Narrowed
  <2>2. CASE back # "refused"
    <3>1. log[i].tool \in request.effective_tools
      BY <2>2 DEF ToolReturns, Inv, Narrowed
    <3> QED
      BY <1>2, <2>2, <3>1 DEF ToolReturns, Inv, Noted, Narrowed
  <2> QED
    BY <2>1, <2>2
<1>5. untold' \in BOOLEAN /\ said' \subseteq {"text", "artifact"}
  BY DEF ToolReturns, Inv, Noted
<1> QED
  BY <1>3, <1>4, <1>5, GoesOnInv DEF ToolReturns

\* A result is returned, or told from now on.
LEMMA AnswerInv ==
    ASSUME Inv, path # "idle", NEW res, NEW telling, Answer(res, telling),
           UNCHANGED <<asked, cache, fell_back, history>>
    PROVE  Inv'
<1>1. CallEmpties' < MaxUpstreamAttempts
  BY DEF Inv, Budget, CallEmpties, history
<1>2. CASE telling = <<>>
  BY <1>1, <1>2, HistoryKept, LeavesInv DEF Answer, asked
<1>3. CASE telling # <<>>
  BY <1>1, <1>3, HistoryKept, LeavesInv DEF Answer, asked
<1> QED
  BY <1>2, <1>3

LEMMA AnswersInv ==
    ASSUME Inv, RunAnswers \/ LiveAnswers \/ FakeAnswers
    PROVE  Inv'
BY AnswerInv DEF RunAnswers, LiveAnswers, FakeAnswers

LEMMA LiveFailsInv ==
    ASSUME Inv, NEW kind, LiveFails(kind)
    PROVE  Inv'
<1>1. plan' = <<>> /\ attempt' \in 0 .. MaxUpstreamAttempts
  BY DEF LiveFails, Inv, Where, Counted
<1>3. empties' \in [Run -> Nat] /\ CallEmpties' = 0
  <2>1. empties \in [Run -> Nat] /\ CallEmpties = 0
    BY DEF LiveFails, Inv, Counted, Budget
  <2>2. CASE MeetsEmpty("live")
    BY <2>1, <2>2, MetMore
  <2>3. CASE UNCHANGED empties
    BY <2>1, <2>3 DEF CallEmpties
  <2> QED
    BY <2>2, <2>3 DEF LiveFails
<1>2. Kept' /\ toolset' \subseteq request.effective_tools
      /\ \A key \in DOMAIN cache' : cache'[key] \subseteq key
  BY DEF LiveFails, Inv, Kept, Narrowed
<1> QED
  BY <1>1, <1>2, <1>3, DiesExecutes, RunsInv DEF LiveFails, asked

LEMMA MeasuredFailsInv ==
    ASSUME Inv, MeasuredFails
    PROVE  Inv'
<1>1. /\ plan' = <<>> /\ attempt' = CallEmpties' + 1 /\ CallEmpties' \in Nat
      /\ CallEmpties' < MaxUpstreamAttempts
      /\ empties' \in [Run -> Nat] /\ attempt' \in 0 .. MaxUpstreamAttempts
  BY DEF MeasuredFails, Inv, Where, Budget, Counted, CallEmpties
<1>2. Kept' /\ toolset' \subseteq request.effective_tools
      /\ \A key \in DOMAIN cache' : cache'[key] \subseteq key
  BY DEF MeasuredFails, Inv, Kept, Narrowed
<1>3. fell_back' \in BOOLEAN
  BY DEF MeasuredFails, Inv, Noted
<1> QED
  BY <1>1, <1>2, <1>3, DiesExecutes, RunsInv DEF MeasuredFails, asked

\* The third empty completion leaves no attempt.
LEMMA EmptyInv ==
    ASSUME Inv, CallMeetsEmpty
    PROVE  Inv'
<1>1. /\ plan' = <<>> /\ attempt = CallEmpties + 1 /\ CallEmpties \in Nat
      /\ CallEmpties < MaxUpstreamAttempts /\ CallEmpties' = CallEmpties + 1
      /\ empties' \in [Run -> Nat]
  BY MetMore DEF CallMeetsEmpty, Inv, Where, Budget, Counted
<1>2. /\ untold' \in BOOLEAN
      /\ executions' \in [Tool -> Nat]
      /\ \A t \in Tool : executions'[t] > 0 => t \in request.effective_tools
  BY DiesExecutes DEF CallMeetsEmpty
<1>3. CASE MayRetry
  <2>1. /\ Runs(FirstPath) /\ FirstPath \in {"measured", "plain"} /\ attempt' = CallEmpties' + 1
        /\ CallEmpties' < MaxUpstreamAttempts
    BY <1>1, <1>3 DEF CallMeetsEmpty, FirstPath, MayRetry
  <2>2. /\ Kept' /\ toolset' \subseteq request.effective_tools
        /\ \A key \in DOMAIN cache' : cache'[key] \subseteq key
        /\ fell_back' \in BOOLEAN
        /\ UNCHANGED <<request, turns, iterations>>
    BY <1>3 DEF CallMeetsEmpty, Inv, Kept, Narrowed, Noted, asked
  <2>3. attempt' \in 0 .. MaxUpstreamAttempts /\ CallEmpties' \in Nat
    BY <1>1, <2>1
  <2> QED
    BY <1>1, <1>2, <2>1, <2>2, <2>3, RunsInv
<1>4. CASE ~ MayRetry
  BY <1>1, <1>2, <1>4, EndsInv DEF CallMeetsEmpty, Raises, asked
<1> QED
  BY <1>3, <1>4

LEMMA PlainFailsInv ==
    ASSUME Inv, PlainFails
    PROVE  Inv'
<1>1. /\ plan' = <<>> /\ empties' \in [Run -> Nat]
      /\ CallEmpties' \in 0 .. MaxUpstreamAttempts
  BY DEF PlainFails, Inv, Where, Counted, Budget, CallEmpties
<1> QED
  BY <1>1, DiesExecutes, EndsInv DEF PlainFails, Raises, asked

LEMMA FakeInv ==
    ASSUME Inv,
           \/ FakeIterates
           \/ \E t \in Tool, outcome \in Outcome : FakeCalls(t, outcome)
           \/ \E what \in {"text", "artifact"} : FakeGives(what)
    PROVE  Inv'
<1>0. path = "script" /\ plan = <<>> /\ log \in Seq(FakeRecord) /\ CallEmpties = 0
  BY DEF Inv, Where, Budget, FakeIterates, FakeCalls, FakeGives
<1>1. ASSUME Raises, UNCHANGED <<asked, cache, plan, fell_back, history>>
      PROVE  Inv'
  BY <1>0, <1>1, HistoryKept, EndsInv DEF Raises, asked
<1>2. ASSUME path' = path, log' \in Seq(FakeRecord), said' \subseteq {"text", "artifact"},
             iterations' \in 0 .. MaxIterations,
             UNCHANGED <<asked, cache, toolset, attempt, plan, ended, fell_back, empties, untold>>,
             executions' \in [Tool -> Nat],
             \A t \in Tool : executions'[t] > 0 => t \in request.effective_tools
      PROVE  Inv'
  <2>1. Where' /\ Budget'
    BY <1>0, <1>2 DEF Inv, Where, Budget, CallEmpties
  <2>2. Requested' /\ Kept' /\ Noted' /\ Counted'
    BY <1>2 DEF Inv, Requested, Kept, Noted, Counted, asked
  <2>3. Narrowed'
    BY <1>0, <1>2 DEF Inv, Narrowed, asked
  <2> QED
    BY <2>1, <2>2, <2>3 DEF Inv
<1>3. said \subseteq {"text", "artifact"} /\ iterations \in 0 .. MaxIterations
  BY DEF Inv, Noted, Counted
<1>4. /\ executions \in [Tool -> Nat]
      /\ \A t \in Tool : executions[t] > 0 => t \in request.effective_tools
  BY DEF Inv, Noted, Narrowed
<1>5. CASE FakeIterates
  <2>1. CASE iterations < MaxIterations
    <3>1. iterations' \in 0 .. MaxIterations
      BY <1>3, <1>5, <2>1, BoundAssumption DEF FakeIterates
    <3> QED
      BY <1>0, <1>2, <1>3, <1>4, <1>5, <2>1, <3>1 DEF FakeIterates, history
  <2>2. CASE ~ (iterations < MaxIterations)
    BY <1>1, <1>5, <2>2 DEF FakeIterates
  <2> QED
    BY <2>1, <2>2
<1>6. ASSUME NEW t \in Tool, NEW outcome \in Outcome, FakeCalls(t, outcome)
      PROVE  Inv'
  <2>1. CASE ~ Raises
    <3>0. t \in request.effective_tools
      BY <1>6, <2>1 DEF FakeCalls
    <3>1. [tool |-> t, executed |-> outcome # "denied", outcome |-> outcome] \in FakeRecord
      BY DEF FakeRecord
    <3>2. log' \in Seq(FakeRecord)
      BY <1>0, <1>6, <2>1, <3>1 DEF FakeCalls
    <3>3. /\ executions' \in [Tool -> Nat]
          /\ \A u \in Tool : executions'[u] > 0 => u \in request.effective_tools
      BY <1>4, <1>6, <2>1, <3>0 DEF FakeCalls
    <3> QED
      BY <1>2, <1>3, <1>6, <2>1, <3>2, <3>3 DEF FakeCalls
  <2>2. CASE Raises
    <3>1. UNCHANGED executions
      BY <1>6, <2>2 DEF FakeCalls, Raises, Leaves
    <3> QED
      BY <1>1, <1>6, <2>2, <3>1 DEF FakeCalls, history
  <2> QED
    BY <2>1, <2>2
<1>7. CASE \E what \in {"text", "artifact"} : FakeGives(what)
  BY <1>0, <1>2, <1>3, <1>4, <1>7 DEF FakeGives, history
<1> QED
  BY <1>5, <1>6, <1>7

LEMMA YieldInv ==
    ASSUME Inv, Yield
    PROVE  Inv'
<1>1. Where' /\ Budget'
  BY DEF Inv, Where, Budget, CallEmpties, Yield, locals, history
<1>2. Requested' /\ Kept' /\ Noted' /\ Counted'
  BY DEF Inv, Requested, Kept, Noted, Counted, Yield, asked, locals, history
<1>3. Narrowed'
  BY DEF Inv, Narrowed, Yield, asked, locals, history
<1> QED
  BY <1>1, <1>2, <1>3 DEF Inv

LEMMA StepInv == Inv /\ [Next]_vars => Inv'
<1> SUFFICES ASSUME Inv, [Next]_vars PROVE Inv'
  OBVIOUS
<1>1. CASE UNCHANGED vars
  BY <1>1 DEF vars, asked, locals, history, Inv, Where, Requested, Kept, Noted, Counted,
              Budget, CallEmpties, Narrowed
<1>2. CASE \E mode \in Mode, declared \in Declared : Begin(mode, declared)
  BY <1>2, BeginInv
<1>3. CASE Abandon
  BY <1>3, AbandonInv
<1>4. CASE Proceed
  <2>1. CASE BuildAgent \/ BuildRefused
    BY <2>1, BuildInv, RefusedInv
  <2>2. CASE \/ \E t \in Tool : ModelCalls(t)
             \/ \E i \in DOMAIN log, back \in {"returned", "retry", "refused"} :
                    ToolReturns(i, back)
    BY <2>2, CallsInv, ReturnInv
  <2>3. CASE ModelSpeaks
    BY <2>3, SpeaksInv
  <2>4. CASE RunAnswers \/ LiveAnswers \/ FakeAnswers
    BY <2>4, AnswersInv
  <2>5. CASE \/ \E kind \in {"empty", "other"} : LiveFails(kind)
             \/ MeasuredFails \/ CallMeetsEmpty \/ PlainFails
    BY <2>5, LiveFailsInv, MeasuredFailsInv, EmptyInv, PlainFailsInv
  <2>6. CASE \/ FakeIterates
             \/ \E t \in Tool, outcome \in Outcome : FakeCalls(t, outcome)
             \/ \E what \in {"text", "artifact"} : FakeGives(what)
    BY <2>6, FakeInv
  <2>7. CASE Yield
    BY <2>7, YieldInv
  <2> QED
    BY <1>4, <2>1, <2>2, <2>3, <2>4, <2>5, <2>6, <2>7 DEF Proceed
<1> QED
  BY <1>1, <1>2, <1>3, <1>4 DEF Next

\* Moving the head of what is to be yielded behind what was yielded changes
\* nothing of the two together.
LEMMA YieldedOrPlanned ==
    ASSUME NEW S, NEW s \in Seq(S), NEW p \in Seq(S), p # <<>>
    PROVE  /\ Append(s, Head(p)) \in Seq(S)
           /\ Tail(p) \in Seq(S)
           /\ Append(s, Head(p)) \o Tail(p) = s \o p
<1>1. Head(p) \in S /\ Tail(p) \in Seq(S) /\ <<Head(p)>> \in Seq(S)
  BY HeadTailProperties
<1>2. Append(s, Head(p)) = s \o <<Head(p)>>
  BY <1>1, AppendIsConcat
<1>3. <<Head(p)>> \o Tail(p) = p
  OBVIOUS
<1>4. (s \o <<Head(p)>>) \o Tail(p) = s \o (<<Head(p)>> \o Tail(p))
  BY <1>1, ConcatAssociative
<1> QED
  BY <1>1, <1>2, <1>3, <1>4, ConcatProperties

-----------------------------------------------------------------------------
(* What a turn reports. *)

\* Which path a mode takes, and when there is a result.
Routed ==
    /\ path \in Run \cup {"build"} => request.mode \in Live
    /\ path = "live" => request.mode = "native" /\ ~ fell_back
    /\ path = "script" => request.mode \in {"fake", "reconstructed"}
    /\ path = "telling" => request.mode \in {"native", "reconstructed"}
    /\ path \notin {"idle", "telling"} => result = NoResult /\ ended = "not"
    /\ path = "telling" => result.is = "result" /\ ended = "not"
    /\ ended = "result" => result.is = "result"
    /\ fell_back => request.mode = "native"

Returned(t) == {i \in DOMAIN log : log[i].tool = t /\ log[i].back = "returned"}
Recorded(t) == {i \in DOMAIN log : log[i].tool = t /\ log[i].executed}

\* The log of a run holds no more returned calls of a tool than it has
\* executions, and that of a blocking run that lost nothing as many; a script
\* records its executions exactly.
Accounted ==
    /\ path \in Run =>
        \A t \in Tool :
            /\ Cardinality(Returned(t)) <= executions[t]
            /\ request.mode = "blocking" /\ ~ untold => Cardinality(Returned(t)) = executions[t]
    /\ path = "build" /\ request.mode = "blocking" /\ ~ untold =>
        \A t \in Tool : executions[t] = 0
    /\ path = "script" =>
        /\ \A t \in Tool : Cardinality(Recorded(t)) = executions[t]
        /\ \A i \in DOMAIN log : log[i].executed <=> log[i].outcome # "denied"

\* The part of ReportIsTrue that is about the records of a result.
RecordsAreTrue ==
    result.is = "result" =>
        \A t \in Tool :
            /\ Executed(t) <= executions[t]
            /\ \/ request.mode \in {"fake", "reconstructed"}
               \/ request.mode = "blocking" /\ ~ untold
               => Executed(t) = executions[t]

\* That, and the report of a fake turn as the script left it.
Reported ==
    /\ RecordsAreTrue
    /\ result.is = "result" /\ request.mode \in {"fake", "reconstructed"} =>
        /\ result.tool_calls \in Seq(FakeRecord)
        /\ \A i \in DOMAIN result.tool_calls :
            result.tool_calls[i].executed <=> result.tool_calls[i].outcome # "denied"

Books == Routed /\ Accounted /\ Reported

LEMMA InitBooks == Init => Books
BY DEF Init, Books, Routed, Accounted, Reported, RecordsAreTrue, NoResult

\* A log with nothing in it counts nothing.
LEMMA NothingReturned ==
    ASSUME log = <<>>, NEW t
    PROVE  Cardinality(Returned(t)) = 0 /\ Cardinality(Recorded(t)) = 0
<1>1. Returned(t) = {} /\ Recorded(t) = {}
  BY DEF Returned, Recorded
<1> QED
  BY <1>1, FS_EmptySet

\* A turn that is not running and keeps its result keeps its report.
LEMMA ReportKept ==
    ASSUME Reported, UNCHANGED <<request, result, executions, untold>>
    PROVE  Reported'
BY DEF Reported, RecordsAreTrue, Executed

LEMMA NoReport ==
    ASSUME result' = NoResult
    PROVE  Reported'
BY DEF Reported, RecordsAreTrue, NoResult

LEMMA BeginBooks ==
    ASSUME Inv, Books, NEW mode \in Mode, NEW declared \in Declared, Begin(mode, declared)
    PROVE  Books'
<1>1. Routed'
  BY DEF Begin, Routed, Mode
<1>2. Accounted'
  <2>1. log' = <<>>
    BY DEF Inv, Narrowed, Begin, locals
  <2>2. \A t \in Tool : Cardinality(Returned(t)') = 0 /\ Cardinality(Recorded(t)') = 0
    <3>1. \A t : Returned(t)' = {} /\ Recorded(t)' = {}
      BY <2>1 DEF Returned, Recorded
    <3> QED
      BY <3>1, FS_EmptySet
  <2> QED
    BY <2>1, <2>2 DEF Begin, Accounted
<1> QED
  BY <1>1, <1>2, NoReport DEF Begin, Books

LEMMA BuildBooks ==
    ASSUME Inv, Books, BuildAgent
    PROVE  Books'
<1>1. Routed'
  BY DEF BuildAgent, Runs, FirstPath, Books, Routed, asked
<1>2. Accounted'
  <2>1. log' = <<>> /\ path' \in Run
    BY DEF BuildAgent, Runs, FirstPath
  <2>2. \A t \in Tool : Cardinality(Returned(t)') = 0
    <3>1. \A t : Returned(t)' = {}
      BY <2>1 DEF Returned
    <3> QED
      BY <3>1, FS_EmptySet
  <2> QED
    BY <2>1, <2>2 DEF BuildAgent, Books, Accounted, Inv, Noted, asked, history
<1>3. result' = NoResult
  BY DEF BuildAgent, Books, Routed
<1> QED
  BY <1>1, <1>2, <1>3, NoReport DEF Books

\* What ends a turn without a result.
LEMMA EndsBooks ==
    ASSUME Books, Leaves("idle"), ended' \in {"error", "abandoned"},
           UNCHANGED <<request, result, fell_back>>,
           \/ result = NoResult
           \/ UNCHANGED <<executions, untold>>
    PROVE  Books'
<1>1. Routed' /\ Accounted'
  BY DEF Leaves, Books, Routed, Accounted
<1> QED
  BY <1>1, NoReport, ReportKept DEF Books

LEMMA CallsBooks ==
    ASSUME Inv, Books, NEW tool \in Tool, ModelCalls(tool)
    PROVE  Books'
<1>1. Routed'
  BY DEF ModelCalls, Books, Routed, asked
<1>2. log \in Seq(Call) /\ log' = Append(log, [tool |-> tool, back |-> "running"])
  BY DEF Inv, Where, ModelCalls
<1>3. [tool |-> tool, back |-> "running"] \in Call
  BY DEF Call
<1>4. \A t : Returned(t)' = Returned(t)
  BY <1>2, <1>3 DEF Returned
<1>5. Accounted'
  BY <1>4 DEF ModelCalls, Books, Accounted, asked, history
<1>6. result' = NoResult
  BY DEF ModelCalls, Books, Routed
<1> QED
  BY <1>1, <1>5, <1>6, NoReport DEF Books

LEMMA ReturnBooks ==
    ASSUME Inv, Books, NEW i \in DOMAIN log, NEW back \in {"returned", "retry", "refused"},
           ToolReturns(i, back)
    PROVE  Books'
<1>1. Routed'
  BY DEF ToolReturns, Books, Routed, asked
<1>2. log \in Seq(Call) /\ log' = [log EXCEPT ![i].back = back] /\ log[i].back = "running"
  BY DEF Inv, Where, ToolReturns
<1>3. log[i] \in Call
  BY <1>2
<1>4. /\ DOMAIN log' = DOMAIN log
      /\ \A j \in DOMAIN log : log'[j].tool = log[j].tool
      /\ \A j \in DOMAIN log : log'[j].back = IF j = i THEN back ELSE log[j].back
  BY <1>2, <1>3 DEF Call
<1>5. log[i].tool \in Tool
  BY <1>3 DEF Call
<1>6. ASSUME NEW t \in Tool
      PROVE  /\ Returned(t) \subseteq DOMAIN log
             /\ i \notin Returned(t)
             /\ Returned(t)' = IF back = "returned" /\ t = log[i].tool
                               THEN Returned(t) \cup {i} ELSE Returned(t)
  BY <1>2, <1>4 DEF Returned
<1>7. ASSUME NEW t \in Tool
      PROVE  /\ Cardinality(Returned(t)) \in Nat
             /\ Cardinality(Returned(t)') =
                    Cardinality(Returned(t)) + (IF back = "returned" /\ t = log[i].tool THEN 1 ELSE 0)
  <2>1. IsFiniteSet(Returned(t)) /\ Cardinality(Returned(t)) \in Nat
    BY <1>2, <1>6, PositionsAreFinite
  <2>2. Cardinality(Returned(t) \cup {i}) = Cardinality(Returned(t)) + 1
    BY <1>6, <2>1, FS_AddElement
  <2> QED
    BY <1>6, <2>1, <2>2
<1>8. executions \in [Tool -> Nat]
  BY DEF Inv, Noted
<1>9. Accounted'
  <2>1. path \in Run /\ path' = path /\ request' = request
    BY DEF ToolReturns, asked
  <2>2. ASSUME NEW t \in Tool
        PROVE  Cardinality(Returned(t)) <= executions[t] /\ executions[t] \in Nat
    BY <1>8, <2>1 DEF Books, Accounted
  <2>3. ASSUME NEW t \in Tool
        PROVE  executions'[t] = executions[t] +
                    (IF back # "refused" /\ t = log[i].tool THEN 1 ELSE 0)
    BY <1>8, <1>5 DEF ToolReturns
  <2>4. ~ untold' => ~ untold /\ back # "retry"
    BY Zenon DEF ToolReturns
  <2>5. ASSUME NEW t \in Tool
        PROVE  /\ Cardinality(Returned(t)') <= executions'[t]
               /\ request.mode = "blocking" /\ ~ untold' =>
                    Cardinality(Returned(t)') = executions'[t]
    <3>1. request.mode = "blocking" /\ ~ untold => Cardinality(Returned(t)) = executions[t]
      BY <2>1 DEF Books, Accounted
    <3> HIDE DEF Returned
    <3> QED
      BY <1>7, <2>2, <2>3, <2>4, <3>1
  <2> QED
    BY <2>1, <2>5 DEF Accounted
<1>10. result' = NoResult
  BY DEF ToolReturns, Books, Routed
<1> QED
  BY <1>1, <1>9, <1>10, NoReport DEF Books

LEMMA SpeaksBooks ==
    ASSUME Inv, Books, ModelSpeaks
    PROVE  Books'
<1>1. Routed'
  BY DEF ModelSpeaks, Books, Routed, asked
<1>2. Accounted'
  BY DEF ModelSpeaks, Books, Accounted, Returned, asked, history
<1>3. result' = NoResult
  BY DEF ModelSpeaks, Books, Routed
<1> QED
  BY <1>1, <1>2, <1>3, NoReport DEF Books

\* A run that dies may have executed more, and is not told of.
LEMMA DiesMore ==
    ASSUME Inv, path \in Run, NEW kind, Dies(kind)
    PROVE  /\ untold'
           /\ \A t \in Tool : executions'[t] >= executions[t] /\ executions'[t] \in Nat
           /\ \A t \in Tool : executions[t] \in Nat
<1>1. untold'
  BY DEF Dies
<1>2. executions \in [Tool -> Nat] /\ executions' \in [Tool -> Nat]
  BY DiesExecutes DEF Inv, Noted
<1> QED
  BY <1>1, <1>2, DiesExecutes

LEMMA RunsAgainBooks ==
    ASSUME Inv, Books, path \in Run, NEW kind, Dies(kind),
           NEW to \in {"build", "measured", "plain"}, Runs(to),
           UNCHANGED <<request, result, ended>>,
           (fell_back' = TRUE /\ path = "live") \/ fell_back' = fell_back
    PROVE  Books'
<1>1. Routed'
  BY DEF Runs, Books, Routed
<1>2. log' = <<>> /\ path' = to /\ untold'
  BY DiesMore DEF Runs
<1>3. \A t \in Tool : Cardinality(Returned(t)') = 0 /\ executions'[t] \in Nat
  <2>1. \A t : Returned(t)' = {}
    BY <1>2 DEF Returned
  <2> QED
    BY <2>1, FS_EmptySet, DiesMore
<1>4. Accounted'
  BY <1>2, <1>3 DEF Accounted
<1>5. result' = NoResult
  BY DEF Books, Routed
<1> QED
  BY <1>1, <1>4, <1>5, NoReport DEF Books

LEMMA FailsBooks ==
    ASSUME Inv, Books,
           \/ \E kind \in {"empty", "other"} : LiveFails(kind)
           \/ MeasuredFails \/ CallMeetsEmpty \/ PlainFails
    PROVE  Books'
<1>1. CASE \E kind \in {"empty", "other"} : LiveFails(kind)
  BY <1>1, RunsAgainBooks DEF LiveFails, asked
<1>2. CASE MeasuredFails
  BY <1>2, RunsAgainBooks DEF MeasuredFails, asked
<1>3. CASE CallMeetsEmpty
  <2>1. CASE MayRetry
    BY <1>3, <2>1, RunsAgainBooks DEF CallMeetsEmpty, asked, FirstPath
  <2>2. CASE ~ MayRetry
    BY <1>3, <2>2, EndsBooks DEF CallMeetsEmpty, Raises, Books, Routed, asked
  <2> QED
    BY <2>1, <2>2
<1>4. CASE PlainFails
  BY <1>4, EndsBooks DEF PlainFails, Raises, Books, Routed, asked
<1> QED
  BY <1>1, <1>2, <1>3, <1>4

\* A result whose records are what the executions are.
LEMMA AnswerBooks ==
    ASSUME Inv, Books, NEW res, NEW telling, Answer(res, telling), res.is = "result",
           path \notin {"idle", "telling"},
           telling # <<>> => request.mode \in {"native", "reconstructed"},
           UNCHANGED <<asked, fell_back, history>>,
           Reported'
    PROVE  Books'
<1>1. path' \in {"idle", "telling"} /\ (path' = "telling" => telling # <<>>)
  BY DEF Answer, Leaves
<1>2. Accounted'
  BY <1>1 DEF Accounted
<1>3. Routed'
  BY <1>1 DEF Answer, Leaves, Books, Routed, asked
<1> QED
  BY <1>2, <1>3 DEF Books

LEMMA RunAnswersBooks ==
    ASSUME Inv, Books, RunAnswers
    PROVE  Books'
<1> DEFINE res == TurnResult(said, ToolCallsOf)
<1>1. result' = res /\ path \in Run /\ UNCHANGED <<request, executions, untold>>
  BY DEF RunAnswers, Answer, asked, history
<1>2. res.tool_calls = ToolCallsOf /\ res.is = "result"
  BY DEF TurnResult
<1>3. ASSUME NEW t \in Tool
      PROVE  Executed(t)' = Cardinality(Returned(t))
  <2>1. {i \in DOMAIN ToolCallsOf : ToolCallsOf[i].tool = t /\ ToolCallsOf[i].executed}
            = Returned(t)
    BY DEF ToolCallsOf, Returned
  <2> QED
    BY <1>1, <1>2, <2>1 DEF Executed
<1>4. request.mode \in Live
  BY <1>1 DEF Books, Routed
<1>5. Reported'
  BY <1>1, <1>2, <1>3, <1>4 DEF Reported, RecordsAreTrue, Books, Accounted
<1> HIDE DEF res
<1> QED
  BY <1>1, <1>2, <1>4, <1>5, AnswerBooks DEF RunAnswers, res

LEMMA LiveAnswersBooks ==
    ASSUME Inv, Books, LiveAnswers
    PROVE  Books'
<1> DEFINE res == TurnResult(said, <<>>)
<1>1. result' = res /\ path = "live" /\ UNCHANGED <<request, executions, untold>>
  BY DEF LiveAnswers, Answer, asked, history
<1>2. res.tool_calls = <<>> /\ res.is = "result"
  BY DEF TurnResult
<1>3. ASSUME NEW t \in Tool
      PROVE  Executed(t)' = 0
  <2>1. {i \in DOMAIN result'.tool_calls :
            result'.tool_calls[i].tool = t /\ result'.tool_calls[i].executed} = {}
    BY <1>1, <1>2
  <2> QED
    BY <2>1, FS_EmptySet DEF Executed
<1>4. request.mode = "native"
  BY <1>1 DEF Books, Routed
<1>5. Reported'
  <2>1. \A t \in Tool : executions[t] \in Nat
    BY DEF Inv, Noted
  <2> QED
    BY <1>1, <1>2, <1>3, <1>4, <2>1 DEF Reported, RecordsAreTrue
<1> HIDE DEF res
<1> QED
  BY <1>1, <1>2, <1>4, <1>5, AnswerBooks DEF LiveAnswers, res

LEMMA FakeAnswersBooks ==
    ASSUME Inv, Books, FakeAnswers
    PROVE  Books'
<1> DEFINE res == TurnResult(said, log)
<1>1. result' = res /\ path = "script" /\ UNCHANGED <<request, executions, untold>>
  BY DEF FakeAnswers, Answer, asked, history
<1>2. res.tool_calls = log /\ res.is = "result"
  BY DEF TurnResult
<1>3. ASSUME NEW t \in Tool
      PROVE  Executed(t)' = Cardinality(Recorded(t))
  BY <1>1, <1>2 DEF Executed, Recorded
<1>4. request.mode \in {"fake", "reconstructed"} /\ log \in Seq(FakeRecord)
  BY <1>1 DEF Books, Routed, Inv, Where
<1>5. Reported'
  <2>1. \A t \in Tool : executions[t] \in Nat
    BY DEF Inv, Noted
  <2>2. \A t \in Tool : Executed(t)' = executions[t]
    BY <1>1, <1>3 DEF Books, Accounted
  <2>3. RecordsAreTrue'
    BY <1>1, <2>1, <2>2 DEF RecordsAreTrue
  <2> QED
    BY <1>1, <1>2, <1>4, <2>3 DEF Reported, Books, Accounted
<1> HIDE DEF res
<1> QED
  BY <1>1, <1>2, <1>4, <1>5, AnswerBooks DEF FakeAnswers, res

LEMMA FakeBooks ==
    ASSUME Inv, Books,
           \/ FakeIterates
           \/ \E t \in Tool, outcome \in Outcome : FakeCalls(t, outcome)
           \/ \E what \in {"text", "artifact"} : FakeGives(what)
    PROVE  Books'
<1>0. path = "script" /\ result = NoResult /\ log \in Seq(FakeRecord)
      /\ executions \in [Tool -> Nat]
  BY DEF FakeIterates, FakeCalls, FakeGives, Books, Routed, Inv, Where, Noted
<1>1. ASSUME Raises, UNCHANGED <<request, result, fell_back>>
      PROVE  Books'
  BY <1>0, <1>1, EndsBooks DEF Raises
<1>2. ASSUME UNCHANGED <<path, request, log, executions, result, ended, fell_back>>
      PROVE  Books'
  <2>1. Routed' /\ Accounted'
    BY <1>0, <1>2 DEF Books, Routed, Accounted, Recorded
  <2> QED
    BY <1>0, <1>2, <2>1, NoReport DEF Books
<1>3. CASE FakeIterates
  BY <1>1, <1>2, <1>3 DEF FakeIterates, asked, history
<1>4. CASE \E what \in {"text", "artifact"} : FakeGives(what)
  BY <1>2, <1>4 DEF FakeGives, asked, history
<1>5. ASSUME NEW t \in Tool, NEW outcome \in Outcome, FakeCalls(t, outcome)
      PROVE  Books'
  <2>1. CASE Raises
    BY <1>1, <1>5, <2>1 DEF FakeCalls, asked
  <2>2. CASE ~ Raises
    <3> DEFINE new == [tool |-> t, executed |-> outcome # "denied", outcome |-> outcome]
    <3>1. log' = Append(log, new) /\ new \in FakeRecord
      BY <1>5, <2>2 DEF FakeCalls, FakeRecord
    <3>0. new.tool = t /\ new.outcome = outcome /\ (new.executed <=> outcome # "denied")
      BY Zenon
    <3> HIDE DEF new
    <3>2. /\ DOMAIN log' = DOMAIN log \cup {Len(log) + 1}
          /\ Len(log) + 1 \notin DOMAIN log
          /\ \A i \in DOMAIN log : log'[i] = log[i]
          /\ log'[Len(log) + 1] = new
      BY <1>0, <3>1
    <3>3. /\ executions' = [executions EXCEPT ![t] = @ + (IF outcome = "denied" THEN 0 ELSE 1)]
          /\ UNCHANGED <<path, request, result, ended, fell_back>>
      BY <1>5, <2>2 DEF FakeCalls, asked
    <3>4. ASSUME NEW u \in Tool
          PROVE  Cardinality(Recorded(u)') = executions'[u]
      <4>1. Recorded(u)' = IF u = t /\ outcome # "denied"
                           THEN Recorded(u) \cup {Len(log) + 1} ELSE Recorded(u)
        BY <3>0, <3>2 DEF Recorded
      <4>2. Len(log) + 1 \notin Recorded(u) /\ Recorded(u) \in SUBSET DOMAIN log
        BY <3>2 DEF Recorded
      <4>3. IsFiniteSet(Recorded(u)) /\ Cardinality(Recorded(u)) \in Nat
        BY <1>0, <4>2, PositionsAreFinite
      <4>4. Cardinality(Recorded(u) \cup {Len(log) + 1}) = Cardinality(Recorded(u)) + 1
        BY <4>2, <4>3, FS_AddElement
      <4>5. Cardinality(Recorded(u)) = executions[u]
        BY <1>0 DEF Books, Accounted
      <4>6. executions'[u] = executions[u] + (IF u = t /\ outcome # "denied" THEN 1 ELSE 0)
        BY <1>0, <3>3
      <4> QED
        BY <4>1, <4>3, <4>4, <4>5, <4>6
    <3>5. \A i \in DOMAIN log' : log'[i].executed <=> log'[i].outcome # "denied"
      BY <1>0, <3>0, <3>2 DEF Books, Accounted
    <3>6. Accounted'
      BY <1>0, <3>3, <3>4, <3>5 DEF Accounted
    <3>7. Routed'
      BY <3>3 DEF Books, Routed
    <3> QED
      BY <1>0, <3>3, <3>6, <3>7, NoReport DEF Books
  <2> QED
    BY <2>1, <2>2
<1> QED
  BY <1>3, <1>4, <1>5

LEMMA YieldBooks ==
    ASSUME Inv, Books, Yield
    PROVE  Books'
<1>1. Routed' /\ Accounted'
  BY DEF Yield, Books, Routed, Accounted, asked, history
<1> QED
  BY <1>1, ReportKept DEF Yield, Books, asked, history

LEMMA StepBooks == Inv /\ Books /\ [Next]_vars => Books'
<1> SUFFICES ASSUME Inv, Books, [Next]_vars PROVE Books'
  OBVIOUS
<1>1. CASE UNCHANGED vars
  <2>1. Routed' /\ Accounted'
    BY <1>1 DEF Books, Routed, Accounted, Returned, Recorded, vars, asked, locals, history
  <2> QED
    BY <1>1, <2>1, ReportKept DEF Books, vars, asked, history
<1>2. CASE \E mode \in Mode, declared \in Declared : Begin(mode, declared)
  BY <1>2, BeginBooks
<1>3. CASE Abandon
  BY <1>3, EndsBooks DEF Abandon, asked, history
<1>4. CASE Proceed
  <2>1. CASE BuildAgent
    BY <2>1, BuildBooks
  <2>2. CASE BuildRefused
    BY <2>2, EndsBooks DEF BuildRefused, Raises, asked, history
  <2>3. CASE \/ \E t \in Tool : ModelCalls(t)
             \/ \E i \in DOMAIN log, back \in {"returned", "retry", "refused"} :
                    ToolReturns(i, back)
    BY <2>3, CallsBooks, ReturnBooks
  <2>4. CASE ModelSpeaks
    BY <2>4, SpeaksBooks
  <2>5. CASE RunAnswers \/ LiveAnswers \/ FakeAnswers
    BY <2>5, RunAnswersBooks, LiveAnswersBooks, FakeAnswersBooks
  <2>6. CASE \/ \E kind \in {"empty", "other"} : LiveFails(kind)
             \/ MeasuredFails \/ CallMeetsEmpty \/ PlainFails
    BY <2>6, FailsBooks
  <2>7. CASE \/ FakeIterates
             \/ \E t \in Tool, outcome \in Outcome : FakeCalls(t, outcome)
             \/ \E what \in {"text", "artifact"} : FakeGives(what)
    BY <2>7, FakeBooks
  <2>8. CASE Yield
    BY <2>8, YieldBooks
  <2> QED
    BY <1>4, <2>1, <2>2, <2>3, <2>4, <2>5, <2>6, <2>7, <2>8 DEF Proceed
<1> QED
  BY <1>1, <1>2, <1>3, <1>4 DEF Next

-----------------------------------------------------------------------------
(* The theorems. *)

LEMMA Invariance == Spec => []Inv
BY InitInv, StepInv, PTL DEF Spec

\* The types of every variable, on every path of every mode.
THEOREM TypeCorrect == Spec => []TypeOK
<1>1. Inv => TypeOK
  BY TypeParts DEF Inv
<1> QED
  BY <1>1, Invariance, PTL

\* "A backend NEVER computes its own toolset": whatever is cached, retried or
\* run again, what runs is in the allowlist, declared, and not dangerous.
THEOREM ToolsArePermitted == Spec => []OnlyPermitted
<1>1. Inv => OnlyPermitted
  BY DEF Inv, Narrowed, OnlyPermitted
<1> QED
  BY <1>1, Invariance, PTL

\* _call: the measured and the plain path have three attempts between them, and
\* each that is over was spent on an empty completion of the one or the other.
THEOREM BudgetIsOne == Spec => []OneBudget
<1>1. Inv => OneBudget
  BY DEF Inv, Budget, Counted, OneBudget
<1> QED
  BY <1>1, Invariance, PTL
=============================================================================
