------------------------- MODULE RecordedRunProofs -------------------------
(***************************************************************************)
(* Proofs about EpisodeDriver, EpisodicEnvironment, RecordedRun and         *)
(* ArtifactStorage, for every set of keys and specifications, all budgets   *)
(* and every width of the counters: the invariant of each, the promises     *)
(* about tokens and closures, that the environment implements               *)
(* EpisodeContract, and what recorder and runner promise of a run; last,    *)
(* for every number of processes, threads, artifacts and temporary names,   *)
(* that what is recorded is published whole and publication implements      *)
(* WriteOnceStore.                                                          *)
(*                                                                          *)
(* Each invariant stands on the one below: a step of the environment is a   *)
(* step of the driver or leaves it alone, and a step of a run is a step of  *)
(* the environment or leaves it alone.  Storage stands alone: what it       *)
(* publishes is the bytes of a finished recording.                          *)
(***************************************************************************)
EXTENDS RecordedRun, ArtifactStorage, FiniteSetTheorems, TLAPS

----------------------------------------------------------------------------
(***************************************************************************)
(* The driver: its inductive invariant.  The properties speak of counters   *)
(* at a boundary; between two boundaries they follow from where the call    *)
(* is: the engine runs under an open loop and waits under an open decision, *)
(* the loop index is the number of engine calls, the trace index is the     *)
(* length of the trace, and the last trace step tells whether the engine    *)
(* moved since.                                                             *)
(***************************************************************************)
Ongoing == lifecycle \in {"Advancing", "AwaitingDecision"}

EngineMatchesCall ==
    /\ Ongoing => host
    /\ lifecycle = "Advancing" => engine = "running"
    /\ lifecycle = "AwaitingDecision" => engine = "waiting" /\ nextProcessIndex > 0

IndicesMatchCounts ==
    /\ nextProcessIndex <= control.process
    /\ Ongoing => /\ nextProcessIndex = processed
                  /\ traceDecisionIndex = Len(trace)

LastStep == trace[Len(trace)]

LastStepMatchesCall ==
    Ongoing /\ Len(trace) > 0 =>
        /\ ~LastStep.terminal
        /\ lifecycle = "Advancing" => LastStep.responds /\ LastStep.engine_step < nextProcessIndex
        /\ lifecycle = "AwaitingDecision" =>
            IF LastStep.responds THEN LastStep.engine_step < nextProcessIndex - 1
                                 ELSE LastStep.engine_step = nextProcessIndex - 1

DriverInv ==
    /\ DriverTypeOK
    /\ EngineMatchesCall
    /\ IndicesMatchCounts
    /\ LastStepMatchesCall
    /\ ActionAccounting
    /\ TraceFaithful
    /\ BudgetsRespected
    /\ MetricsExactAtBoundary

----------------------------------------------------------------------------
(* The trace. *)

(* A step with the next index, later than the last step by the rule of      *)
(* TraceFaithful, extends a faithful trace to a faithful trace.             *)
LEMMA AppendFaithful ==
    ASSUME trace \in Seq(TraceSteps), TraceFaithful,
           NEW s \in TraceSteps, s.index = Len(trace),
           Len(trace) > 0 =>
               /\ ~LastStep.terminal
               /\ IF LastStep.responds THEN LastStep.engine_step < s.engine_step
                                       ELSE LastStep.engine_step = s.engine_step,
           trace' = Append(trace, s)
    PROVE  TraceFaithful'
<1>1. /\ Len(trace') = Len(trace) + 1
      /\ Len(trace) \in Nat
      /\ \A i \in 1..Len(trace) : trace'[i] = trace[i]
      /\ trace'[Len(trace) + 1] = s
  OBVIOUS
<1>2. ASSUME NEW i \in 1..Len(trace') PROVE trace'[i].index = i - 1
  BY <1>1 DEF TraceFaithful
<1>3. ASSUME NEW i \in 1..(Len(trace') - 1)
      PROVE  /\ ~trace'[i].terminal
             /\ IF trace'[i].responds THEN trace'[i].engine_step < trace'[i + 1].engine_step
                                      ELSE trace'[i].engine_step = trace'[i + 1].engine_step
  <2>1. CASE i = Len(trace)
    BY <1>1, <2>1 DEF LastStep
  <2>2. CASE i # Len(trace)
    BY <1>1, <2>2 DEF TraceFaithful
  <2> QED  BY <2>1, <2>2
<1> QED  BY <1>2, <1>3 DEF TraceFaithful

(* The index of the terminal step may wrap; nothing follows that step. *)
LEMMA WrappedIndex ==
    ASSUME NEW i \in Nat PROVE (i + 1) % (MaxIndex + 1) \in 0..MaxIndex
BY DriverAssumption

(* The budgets are numbers. *)
LEMMA BudgetsAreNumbers ==
    ASSUME control \in Controls
    PROVE  /\ control.process \in Nat \ {0}
           /\ control.semantic \in Nat \ {0}
BY DriverAssumption DEF DriverAssumption, Controls

(* What the types say of the single numbers. *)
LEMMA Numbers ==
    ASSUME DriverTypeOK
    PROVE  /\ control.process \in Nat \ {0}
           /\ control.semantic \in Nat \ {0}
           /\ metrics \in Metrics
           /\ metrics.semantic \in Nat
           /\ metrics.interactive \in Nat
           /\ metrics.intermediate \in Nat
           /\ MaxIndex \in Nat
           /\ traceDecisionIndex \in 0..MaxIndex
           /\ nextProcessIndex \in Nat
           /\ processed \in Nat
           /\ responded \in Nat
           /\ Len(trace) \in Nat
           /\ Len(trace) > 0 => LastStep.engine_step \in Nat
<1>1. Len(trace) > 0 => LastStep \in TraceSteps
  BY DEF DriverTypeOK, LastStep
<1> QED  BY <1>1, BudgetsAreNumbers, DriverAssumption
     DEF DriverAssumption, DriverTypeOK, Metrics, TraceSteps

----------------------------------------------------------------------------
(* The counters.  A step leaves them alone or counts and then refreshes. *)

MetricsBecome(semantic, interactive, intermediate) ==
    /\ metrics' \in Metrics
    /\ metrics'.process = processed'
    /\ metrics'.response = responded'
    /\ metrics'.semantic = semantic
    /\ metrics'.interactive = interactive
    /\ metrics'.intermediate = intermediate

(* Refreshing copies the two engine counters and keeps the rest. *)
LEMMA RefreshedMetrics ==
    ASSUME NEW m \in Metrics, processed' \in Nat, responded' \in Nat, metrics' = Refreshed(m)
    PROVE  MetricsBecome(m.semantic, m.interactive, m.intermediate)
<1>1. Refreshed(m) \in Metrics
  BY Zenon DEF Refreshed, Metrics
<1>2. /\ Refreshed(m).process = processed'
      /\ Refreshed(m).response = responded'
      /\ Refreshed(m).semantic = m.semantic
      /\ Refreshed(m).interactive = m.interactive
      /\ Refreshed(m).intermediate = m.intermediate
  BY DEF Refreshed, Metrics
<1> QED  BY <1>1, <1>2 DEF MetricsBecome

(* Each way of counting raises its counters by one. *)
LEMMA CountedMetrics ==
    ASSUME metrics \in Metrics
    PROVE  /\ CountInteractive \in Metrics
           /\ CountInteractive.semantic = metrics.semantic
           /\ CountInteractive.interactive = metrics.interactive + 1
           /\ CountInteractive.intermediate = metrics.intermediate
           /\ Counted \in Metrics
           /\ Counted.semantic = metrics.semantic + 1
           /\ Counted.interactive = metrics.interactive
           /\ Counted.intermediate = metrics.intermediate
           /\ CountedPick \in Metrics
           /\ CountedPick.semantic = metrics.semantic + 1
           /\ CountedPick.interactive = metrics.interactive
           /\ CountedPick.intermediate = metrics.intermediate + 1
<1>1. CountInteractive \in Metrics
  BY DEF CountInteractive, Metrics
<1>2. Counted \in Metrics
  BY DEF Counted, Metrics
<1>3. CountedPick \in Metrics
  BY <1>2 DEF CountedPick, Metrics
<1>4. /\ CountInteractive.semantic = metrics.semantic
      /\ CountInteractive.interactive = metrics.interactive + 1
      /\ CountInteractive.intermediate = metrics.intermediate
      /\ Counted.semantic = metrics.semantic + 1
      /\ Counted.interactive = metrics.interactive
      /\ Counted.intermediate = metrics.intermediate
      /\ CountedPick.semantic = metrics.semantic + 1
      /\ CountedPick.interactive = metrics.interactive
      /\ CountedPick.intermediate = metrics.intermediate + 1
  BY DEF CountInteractive, Counted, CountedPick, Metrics
<1> QED  BY <1>1, <1>2, <1>3, <1>4

----------------------------------------------------------------------------
(* The initial states and the steps. *)

(* A new driver satisfies the invariant. *)
LEMMA InitInv == DriverInit => DriverInv
<1> SUFFICES ASSUME DriverInit PROVE DriverInv
  OBVIOUS
<1> USE DEF DriverInit, NoMetrics
<1>b. control.process \in Nat \ {0} /\ control.semantic \in Nat \ {0}
  BY BudgetsAreNumbers
<1>1. DriverTypeOK
  BY DriverAssumption DEF DriverAssumption, DriverTypeOK, DriverFailures, NoFailure, Metrics
<1>2. EngineMatchesCall /\ IndicesMatchCounts /\ LastStepMatchesCall
  BY <1>b DEF EngineMatchesCall, IndicesMatchCounts, LastStepMatchesCall, Ongoing
<1>3. ActionAccounting /\ TraceFaithful /\ BudgetsRespected /\ MetricsExactAtBoundary
  BY <1>b DEF ActionAccounting, TraceFaithful, BudgetsRespected, MetricsExactAtBoundary,
     ClosedLifecycles
<1> QED  BY <1>1, <1>2, <1>3 DEF DriverInv

(* What the invariant says of the numbers while a call is in the loop. *)
LEMMA AdvancingNumbers ==
    ASSUME DriverInv, lifecycle = "Advancing"
    PROVE  /\ Ongoing /\ host /\ engine = "running"
           /\ nextProcessIndex = processed
           /\ nextProcessIndex <= control.process
           /\ Len(trace) = metrics.semantic
           /\ traceDecisionIndex = metrics.semantic
           /\ metrics.semantic = metrics.intermediate + responded
           /\ metrics.interactive = responded
           /\ metrics.semantic <= control.semantic
<1>1. DriverTypeOK
  BY DEF DriverInv
<1> QED
  BY <1>1, Numbers DEF DriverInv, Ongoing, EngineMatchesCall, IndicesMatchCounts, ActionAccounting,
     BudgetsRespected

(* And while a decision is awaited. *)
LEMMA AwaitingNumbers ==
    ASSUME DriverInv, lifecycle = "AwaitingDecision"
    PROVE  /\ Ongoing /\ host /\ engine = "waiting"
           /\ nextProcessIndex = processed
           /\ nextProcessIndex > 0
           /\ nextProcessIndex <= control.process
           /\ Len(trace) = metrics.semantic
           /\ traceDecisionIndex = metrics.semantic
           /\ metrics.semantic = metrics.intermediate + responded
           /\ metrics.interactive = responded + 1
           /\ metrics.semantic < control.semantic
           /\ metrics.process = processed
           /\ metrics.response = responded
<1>1. DriverTypeOK
  BY DEF DriverInv
<1> QED
  BY <1>1, Numbers DEF DriverInv, Ongoing, EngineMatchesCall, IndicesMatchCounts, ActionAccounting,
     BudgetsRespected, MetricsExactAtBoundary

----------------------------------------------------------------------------
(* What every step says of the variables that no counter depends on. *)
FreeVariablesTyped ==
    /\ control' = control
    /\ host' \in BOOLEAN
    /\ request' \in Requests \cup {None}
    /\ failure' \in DriverFailures
    /\ accepted' \in {"none", "unsubmitted", "submitted"}
    /\ engine' \in {"running", "waiting", "over"}

(* close_with_failure drops host and request whatever it is told. *)
LEMMA CloseWithFailureTyped ==
    ASSUME NEW m, NEW mutation \in BOOLEAN, NEW part \in {"advance", "action"},
           CloseWithFailure(m, part, mutation)
    PROVE  /\ host' \in BOOLEAN
           /\ request' = None
           /\ failure' \in DriverFailures
           /\ lifecycle' \in ClosedLifecycles \ {"Terminal"}
           /\ metrics' = Refreshed(m)
<1>1. host' \in BOOLEAN
  BY Zenon DEF CloseWithFailure
<1>2. failure' \in DriverFailures
  BY DEF CloseWithFailure, DriverFailures
<1> QED  BY <1>1, <1>2 DEF CloseWithFailure, ClosedLifecycles

(* Once the call has closed the driver, the invariant asks only that the    *)
(* numbers still add up.                                                    *)
LEMMA ClosedInv ==
    ASSUME DriverInv, FreeVariablesTyped, lifecycle' \in ClosedLifecycles,
           NEW s \in Nat, NEW i \in Nat, NEW n \in Nat,
           MetricsBecome(s, i, n),
           nextProcessIndex' \in Nat, nextProcessIndex' <= control.process,
           processed' \in Nat, processed' <= control.process,
           responded' \in Nat, s = n + responded', s <= control.semantic,
           traceDecisionIndex' \in 0..MaxIndex,
           trace' \in Seq(TraceSteps), TraceFaithful',
           Len(trace') = s + (IF lifecycle' = "Terminal" THEN 1 ELSE 0)
    PROVE  DriverInv'
<1>1. DriverTypeOK'
  BY DEF DriverInv, DriverTypeOK, FreeVariablesTyped, MetricsBecome
<1>2. EngineMatchesCall' /\ IndicesMatchCounts' /\ LastStepMatchesCall'
  BY DEF FreeVariablesTyped, EngineMatchesCall, IndicesMatchCounts, LastStepMatchesCall, Ongoing,
     ClosedLifecycles
<1>3. ActionAccounting'
  BY DEF ActionAccounting, ClosedLifecycles, MetricsBecome
<1>4. BudgetsRespected' /\ MetricsExactAtBoundary'
  BY DEF FreeVariablesTyped, BudgetsRespected, MetricsExactAtBoundary, ClosedLifecycles,
     MetricsBecome
<1> QED  BY <1>1, <1>2, <1>3, <1>4 DEF DriverInv

(* A call that ends in the loop without a terminal message: nothing is      *)
(* traced, counted or answered, but a decision may have been seen.          *)
LEMMA LoopClosesInv ==
    ASSUME DriverInv, lifecycle = "Advancing",
           FreeVariablesTyped, lifecycle' \in ClosedLifecycles \ {"Terminal"},
           NEW i \in Nat, MetricsBecome(metrics.semantic, i, metrics.intermediate),
           \/ UNCHANGED <<nextProcessIndex, processed>>
           \/ /\ WithinProcessBudget
              /\ processed' = processed + 1
              /\ nextProcessIndex' \in {nextProcessIndex, nextProcessIndex + 1},
           traceDecisionIndex' \in 0..MaxIndex,
           UNCHANGED <<trace, responded>>
    PROVE  DriverInv'
<1>n. DriverTypeOK
  BY DEF DriverInv
<1>1. /\ nextProcessIndex' \in Nat /\ nextProcessIndex' <= control.process
      /\ processed' \in Nat /\ processed' <= control.process
  BY <1>n, Numbers, AdvancingNumbers DEF WithinProcessBudget
<1>2. trace' \in Seq(TraceSteps) /\ TraceFaithful' /\ responded' \in Nat
  BY DEF DriverInv, DriverTypeOK, TraceFaithful
<1>3. /\ metrics.semantic = metrics.intermediate + responded'
      /\ metrics.semantic <= control.semantic
      /\ Len(trace') = metrics.semantic + (IF lifecycle' = "Terminal" THEN 1 ELSE 0)
  BY <1>n, Numbers, AdvancingNumbers
<1> QED
  BY <1>n, <1>1, <1>2, <1>3, Numbers, ClosedInv DEF ClosedLifecycles

(* One step of the loop of advance_until_boundary keeps the invariant. *)
LEMMA AdvanceStepInv ==
    ASSUME DriverInv, AdvanceStep PROVE DriverInv'
<1>n. DriverTypeOK
  BY DEF DriverInv
<1>1. CASE ProcessThrows
  <2> USE <1>1 DEF ProcessThrows, CallProcess
  <2>1. /\ host' \in BOOLEAN
        /\ request' = None
        /\ failure' \in DriverFailures
        /\ lifecycle' \in ClosedLifecycles \ {"Terminal"}
        /\ metrics' = Refreshed(metrics)
    BY CloseWithFailureTyped
  <2>2. MetricsBecome(metrics.semantic, metrics.interactive, metrics.intermediate)
    <3>1. metrics \in Metrics /\ processed' \in Nat /\ responded' \in Nat
      BY <1>n, Numbers
    <3> QED
      BY ONLY <2>1, <3>1, RefreshedMetrics
  <2>3. FreeVariablesTyped /\ traceDecisionIndex' \in 0..MaxIndex
    BY <1>n, <2>1 DEF DriverTypeOK, FreeVariablesTyped
  <2> QED
    BY <1>n, <2>1, <2>2, <2>3, Numbers, LoopClosesInv
<1>2. CASE MessageRefused
  <2> USE <1>2 DEF MessageRefused, ReceiveMessage, CallProcess
  <2>1. /\ host' \in BOOLEAN
        /\ request' = None
        /\ failure' \in DriverFailures
        /\ lifecycle' \in ClosedLifecycles \ {"Terminal"}
        /\ metrics' = Refreshed(metrics)
    BY CloseWithFailureTyped
  <2>2. MetricsBecome(metrics.semantic, metrics.interactive, metrics.intermediate)
    <3>1. metrics \in Metrics /\ processed' \in Nat /\ responded' \in Nat
      BY <1>n, Numbers
    <3> QED
      BY ONLY <2>1, <3>1, RefreshedMetrics
  <2>3. FreeVariablesTyped /\ traceDecisionIndex' \in 0..MaxIndex
    BY <1>n, <2>1 DEF DriverTypeOK, FreeVariablesTyped
  <2> QED
    BY <1>n, <2>1, <2>2, <2>3, Numbers, LoopClosesInv
<1>3. CASE MessageTerminalFails
  <2> USE <1>3 DEF MessageTerminalFails, TakeTerminalIndex, ReceiveMessage, CallProcess
  <2>1. /\ host' \in BOOLEAN
        /\ request' = None
        /\ failure' \in DriverFailures
        /\ lifecycle' \in ClosedLifecycles \ {"Terminal"}
        /\ metrics' = Refreshed(metrics)
    BY CloseWithFailureTyped
  <2>2. MetricsBecome(metrics.semantic, metrics.interactive, metrics.intermediate)
    <3>1. metrics \in Metrics /\ processed' \in Nat /\ responded' \in Nat
      BY <1>n, Numbers
    <3> QED
      BY ONLY <2>1, <3>1, RefreshedMetrics
  <2>3. FreeVariablesTyped /\ traceDecisionIndex' \in 0..MaxIndex
    BY <1>n, <2>1, WrappedIndex DEF DriverTypeOK, FreeVariablesTyped
  <2> QED
    BY <1>n, <2>1, <2>2, <2>3, Numbers, LoopClosesInv
<1>4. CASE DecisionOverBudget
  <2> USE <1>4 DEF DecisionOverBudget, MessageDecision, ReceiveMessage, CallProcess, CloseAt
  <2>1. /\ host' \in BOOLEAN
        /\ request' = None
        /\ failure' \in DriverFailures
        /\ lifecycle' \in ClosedLifecycles \ {"Terminal"}
        /\ metrics' = Refreshed(metrics)
    BY <1>n DEF DriverTypeOK, ClosedLifecycles
  <2>2. MetricsBecome(metrics.semantic, metrics.interactive, metrics.intermediate)
    <3>1. metrics \in Metrics /\ processed' \in Nat /\ responded' \in Nat
      BY <1>n, Numbers
    <3> QED
      BY ONLY <2>1, <3>1, RefreshedMetrics
  <2>3. FreeVariablesTyped /\ traceDecisionIndex' \in 0..MaxIndex
    BY <1>n, <2>1 DEF DriverTypeOK, FreeVariablesTyped
  <2> QED
    BY <1>n, <2>1, <2>2, <2>3, Numbers, LoopClosesInv
<1>5. CASE DecisionUnpublishable
  <2> USE <1>5 DEF DecisionUnpublishable, MessageDecision, ReceiveMessage, CallProcess
  <2>1. /\ host' \in BOOLEAN
        /\ request' = None
        /\ failure' \in DriverFailures
        /\ lifecycle' \in ClosedLifecycles \ {"Terminal"}
        /\ metrics' = Refreshed(CountInteractive)
    BY CloseWithFailureTyped
  <2>2. MetricsBecome(metrics.semantic, metrics.interactive + 1, metrics.intermediate)
    <3>1. metrics \in Metrics /\ processed' \in Nat /\ responded' \in Nat
      BY <1>n, Numbers
    <3> QED
      BY ONLY <2>1, <3>1, RefreshedMetrics, CountedMetrics
  <2>3. FreeVariablesTyped /\ traceDecisionIndex' \in 0..MaxIndex
    BY <1>n, <2>1 DEF DriverTypeOK, FreeVariablesTyped
  <2> QED
    BY <1>n, <2>1, <2>2, <2>3, Numbers, LoopClosesInv
<1>6. CASE ProcessBudgetSpent
  <2> USE <1>6 DEF ProcessBudgetSpent, CloseAt
  <2>1. /\ host' \in BOOLEAN
        /\ request' = None
        /\ failure' \in DriverFailures
        /\ lifecycle' \in ClosedLifecycles \ {"Terminal"}
        /\ metrics' = Refreshed(metrics)
    BY <1>n DEF DriverTypeOK, ClosedLifecycles
  <2>2. MetricsBecome(metrics.semantic, metrics.interactive, metrics.intermediate)
    <3>1. metrics \in Metrics /\ processed' \in Nat /\ responded' \in Nat
      BY <1>n, Numbers
    <3> QED
      BY ONLY <2>1, <3>1, RefreshedMetrics
  <2>3. FreeVariablesTyped /\ traceDecisionIndex' \in 0..MaxIndex
    BY <1>n, <2>1 DEF DriverTypeOK, FreeVariablesTyped
  <2> QED
    BY <1>n, <2>1, <2>2, <2>3, Numbers, LoopClosesInv
<1>7. CASE ProcessIndexOverflow
  <2> USE <1>7 DEF ProcessIndexOverflow
  <2>1. /\ host' \in BOOLEAN
        /\ request' = None
        /\ failure' \in DriverFailures
        /\ lifecycle' \in ClosedLifecycles \ {"Terminal"}
        /\ metrics' = Refreshed(metrics)
    BY CloseWithFailureTyped
  <2>2. MetricsBecome(metrics.semantic, metrics.interactive, metrics.intermediate)
    <3>1. metrics \in Metrics /\ processed' \in Nat /\ responded' \in Nat
      BY <1>n, Numbers
    <3> QED
      BY ONLY <2>1, <3>1, RefreshedMetrics
  <2>3. FreeVariablesTyped /\ traceDecisionIndex' \in 0..MaxIndex
    BY <1>n, <2>1 DEF DriverTypeOK, FreeVariablesTyped
  <2> QED
    BY <1>n, <2>1, <2>2, <2>3, Numbers, LoopClosesInv
<1>8. CASE MessageWithoutDecision
  <2> USE <1>8 DEF MessageWithoutDecision, ReceiveMessage, CallProcess
  <2>1. FreeVariablesTyped /\ UNCHANGED <<trace, metrics, responded, lifecycle, host, engine>>
    BY <1>n DEF DriverTypeOK, FreeVariablesTyped
  <2>2. /\ nextProcessIndex' = nextProcessIndex + 1 /\ nextProcessIndex' <= control.process
        /\ processed' = processed + 1 /\ traceDecisionIndex' = traceDecisionIndex
    BY <1>n, Numbers DEF WithinProcessBudget
  <2> HIDE <1>8 DEF MessageWithoutDecision, ReceiveMessage, CallProcess
  <2>3. lifecycle = "Advancing"
    BY <1>8 DEF MessageWithoutDecision, ReceiveMessage, CallProcess
  <2>4. DriverTypeOK'
    BY <1>n, <2>1, <2>2 DEF DriverTypeOK, FreeVariablesTyped
  <2>5. EngineMatchesCall' /\ IndicesMatchCounts'
    BY <2>1, <2>2, <2>3, AdvancingNumbers
       DEF EngineMatchesCall, IndicesMatchCounts, Ongoing, FreeVariablesTyped
  <2>6. LastStepMatchesCall'
    BY <1>n, <2>1, <2>2, <2>3, Numbers
       DEF DriverInv, LastStepMatchesCall, LastStep, Ongoing
  <2>7. TraceFaithful' /\ ActionAccounting' /\ MetricsExactAtBoundary'
    BY <2>1, <2>3 DEF DriverInv, TraceFaithful, ActionAccounting, MetricsExactAtBoundary,
       ClosedLifecycles
  <2>8. BudgetsRespected'
    BY <1>n, <2>1, <2>2, <2>3, Numbers, AdvancingNumbers DEF FreeVariablesTyped, BudgetsRespected
  <2> QED  BY <2>4, <2>5, <2>6, <2>7, <2>8 DEF DriverInv
<1>9. CASE MessageTerminal
  <2> DEFINE s == [index |-> traceDecisionIndex, engine_step |-> nextProcessIndex,
                   responds |-> FALSE, terminal |-> TRUE]
  <2>1. /\ lifecycle = "Advancing" /\ lifecycle' = "Terminal"
        /\ nextProcessIndex < control.process
        /\ nextProcessIndex' = nextProcessIndex + 1
        /\ processed' = processed + 1
        /\ responded' = responded
        /\ metrics' = Refreshed(metrics)
        /\ trace' = Append(trace, s)
    BY <1>9 DEF MessageTerminal, TakeTerminalIndex, ReceiveMessage, CallProcess, CloseAt,
       WithinProcessBudget
  <2>2. s \in TraceSteps /\ s.index = Len(trace) /\ s.engine_step = nextProcessIndex
    BY <1>n, <2>1, Numbers, AdvancingNumbers DEF TraceSteps
  <2>3. FreeVariablesTyped /\ traceDecisionIndex' \in 0..MaxIndex
    BY <1>9, <1>n, WrappedIndex
       DEF DriverTypeOK, FreeVariablesTyped, MessageTerminal, TakeTerminalIndex, ReceiveMessage,
           CallProcess, CloseAt
  <2> HIDE DEF s
  <2>4. trace' \in Seq(TraceSteps) /\ Len(trace') = Len(trace) + 1
    BY <1>n, <2>1, <2>2 DEF DriverTypeOK
  <2>5. TraceFaithful'
    BY <1>n, <2>1, <2>2, AdvancingNumbers, AppendFaithful
       DEF DriverInv, DriverTypeOK, LastStepMatchesCall
  <2>6. MetricsBecome(metrics.semantic, metrics.interactive, metrics.intermediate)
    <3>1. metrics \in Metrics /\ processed' \in Nat /\ responded' \in Nat
      BY <1>n, <2>1, Numbers
    <3> QED
      BY ONLY <2>1, <3>1, RefreshedMetrics
  <2>7. /\ nextProcessIndex' \in Nat /\ nextProcessIndex' <= control.process
        /\ processed' \in Nat /\ processed' <= control.process
    BY <1>n, <2>1, Numbers, AdvancingNumbers
  <2> QED
    BY <1>n, <2>1, <2>3, <2>4, <2>5, <2>6, <2>7, Numbers, AdvancingNumbers, ClosedInv
       DEF ClosedLifecycles
<1>10. ASSUME NEW r \in Requests, DecisionPublished(r) PROVE DriverInv'
  <2> USE <1>10 DEF DecisionPublished, MessageDecision, ReceiveMessage, CallProcess
  <2>1. FreeVariablesTyped /\ UNCHANGED <<trace, responded, host, traceDecisionIndex>>
    BY <1>n DEF DriverTypeOK, FreeVariablesTyped
  <2>2. /\ nextProcessIndex' = nextProcessIndex + 1 /\ nextProcessIndex' <= control.process
        /\ processed' = processed + 1
        /\ lifecycle' = "AwaitingDecision" /\ engine' = "waiting"
        /\ metrics.semantic < control.semantic
    BY <1>n, Numbers DEF WithinProcessBudget, SemanticBudgetSpent
  <2>3. MetricsBecome(metrics.semantic, metrics.interactive + 1, metrics.intermediate)
    <3>1. /\ metrics \in Metrics /\ processed' \in Nat /\ responded' \in Nat
          /\ metrics' = Refreshed(CountInteractive)
      BY <1>n, Numbers
    <3> QED
      BY ONLY <3>1, RefreshedMetrics, CountedMetrics
  <2>4. lifecycle = "Advancing"
    OBVIOUS
  <2> HIDE <1>10 DEF DecisionPublished, MessageDecision, ReceiveMessage, CallProcess
  <2>5. DriverTypeOK'
    BY <1>n, <2>1, <2>2, <2>3 DEF DriverTypeOK, FreeVariablesTyped, MetricsBecome
  <2>6. EngineMatchesCall' /\ IndicesMatchCounts'
    BY <1>n, <2>1, <2>2, <2>4, Numbers, AdvancingNumbers
       DEF EngineMatchesCall, IndicesMatchCounts, Ongoing, FreeVariablesTyped
  <2>7. LastStepMatchesCall'
    BY <1>n, <2>1, <2>2, <2>4, Numbers, AdvancingNumbers
       DEF DriverInv, LastStepMatchesCall, LastStep, Ongoing
  <2>8. TraceFaithful'
    BY <2>1 DEF DriverInv, TraceFaithful
  <2>9. ActionAccounting' /\ BudgetsRespected' /\ MetricsExactAtBoundary'
    BY <1>n, <2>1, <2>2, <2>3, <2>4, Numbers, AdvancingNumbers
       DEF FreeVariablesTyped, ActionAccounting, BudgetsRespected, MetricsExactAtBoundary, MetricsBecome
  <2> QED  BY <2>5, <2>6, <2>7, <2>8, <2>9 DEF DriverInv
<1> QED  BY <1>1, <1>2, <1>3, <1>4, <1>5, <1>6, <1>7, <1>8, <1>9, <1>10 DEF AdvanceStep

(* apply_semantic_key commits its trace step before it responds. *)
LEMMA CommittedTrace ==
    ASSUME DriverInv, lifecycle = "AwaitingDecision",
           NEW responds \in BOOLEAN, CommitStep(responds)
    PROVE  /\ trace' \in Seq(TraceSteps)
           /\ TraceFaithful'
           /\ Len(trace') = Len(trace) + 1
           /\ LastStep'.engine_step = nextProcessIndex - 1
           /\ LastStep'.responds = responds
           /\ LastStep'.terminal = FALSE
           /\ traceDecisionIndex' = traceDecisionIndex + 1
           /\ traceDecisionIndex' \in 0..MaxIndex
<1>n. DriverTypeOK
  BY DEF DriverInv
<1> DEFINE s == [index |-> traceDecisionIndex, engine_step |-> nextProcessIndex - 1,
                 responds |-> responds, terminal |-> FALSE]
<1>1. s \in TraceSteps
  BY <1>n, Numbers, AwaitingNumbers DEF TraceSteps
<1>2. trace' = Append(trace, s) /\ traceDecisionIndex' = traceDecisionIndex + 1
      /\ traceDecisionIndex < MaxIndex
  BY DEF CommitStep, TraceIndexLeft
<1>3. s.index = Len(trace) /\ s.engine_step = nextProcessIndex - 1
  BY <1>n, Numbers, AwaitingNumbers
<1>4. s.responds = responds /\ s.terminal = FALSE
  BY Zenon
<1> HIDE DEF s
<1>5. trace' \in Seq(TraceSteps) /\ Len(trace') = Len(trace) + 1 /\ LastStep' = s
  BY <1>n, <1>1, <1>2 DEF DriverTypeOK, LastStep
<1>6. TraceFaithful'
  BY <1>n, <1>1, <1>2, <1>3, Numbers, AwaitingNumbers, AppendFaithful
     DEF DriverInv, DriverTypeOK, LastStepMatchesCall
<1>7. traceDecisionIndex' \in 0..MaxIndex
  BY <1>n, <1>2, Numbers
<1> QED  BY <1>2, <1>3, <1>4, <1>5, <1>6, <1>7

(* A call of apply_semantic_key that closes the driver. *)
LEMMA ApplyClosesInv ==
    ASSUME DriverInv, lifecycle = "AwaitingDecision",
           FreeVariablesTyped, lifecycle' \in ClosedLifecycles \ {"Terminal"},
           UNCHANGED <<nextProcessIndex, processed>>,
           NEW responds \in BOOLEAN, CommitStep(responds),
           NEW n \in Nat, responded' \in Nat, metrics.semantic + 1 = n + responded',
           MetricsBecome(metrics.semantic + 1, metrics.interactive, n)
    PROVE  DriverInv'
<1>n. DriverTypeOK
  BY DEF DriverInv
<1>0. nextProcessIndex' = nextProcessIndex /\ processed' = processed
  OBVIOUS
<1>1. /\ nextProcessIndex' \in Nat /\ nextProcessIndex' <= control.process
      /\ processed' \in Nat /\ processed' <= control.process
  BY <1>n, <1>0, Numbers, AwaitingNumbers
<1>b. /\ metrics.semantic \in Nat /\ control.semantic \in Nat
      /\ metrics.semantic < control.semantic
      /\ Len(trace) = metrics.semantic
  BY <1>n, Numbers, AwaitingNumbers
<1>c. metrics.semantic + 1 \in Nat /\ metrics.semantic + 1 <= control.semantic
  BY <1>b
<1>2. /\ traceDecisionIndex' \in 0..MaxIndex
      /\ trace' \in Seq(TraceSteps) /\ TraceFaithful'
      /\ Len(trace') = Len(trace) + 1
  BY CommittedTrace
<1>3. Len(trace') = metrics.semantic + 1 + (IF lifecycle' = "Terminal" THEN 1 ELSE 0)
  BY <1>b, <1>2
<1> QED  BY <1>n, <1>1, <1>c, <1>2, <1>3, Numbers, ClosedInv DEF ClosedLifecycles

(* Every outcome of apply_semantic_key keeps the invariant. *)
LEMMA ApplyStepInv ==
    ASSUME DriverInv, NEW k \in Keys, ApplyStep(k) PROVE DriverInv'
<1>n. DriverTypeOK
  BY DEF DriverInv
<1>1. CASE ApplyFailsUncounted(k)
  <2>1. /\ lifecycle = "AwaitingDecision" /\ control' = control /\ accepted' = "unsubmitted"
        /\ UNCHANGED <<nextProcessIndex, processed, traceDecisionIndex, trace, engine, responded>>
        /\ CloseWithFailure(metrics, IF TraceIndexLeft THEN "advance" ELSE "action", FALSE)
    BY <1>1 DEF ApplyFailsUncounted, Selecting
  <2>2. /\ host' \in BOOLEAN
        /\ request' = None
        /\ failure' \in DriverFailures
        /\ lifecycle' \in ClosedLifecycles \ {"Terminal"}
        /\ metrics' = Refreshed(metrics)
    BY <2>1, CloseWithFailureTyped
  <2>3. MetricsBecome(metrics.semantic, metrics.interactive, metrics.intermediate)
    BY <1>n, <2>1, <2>2, Numbers, RefreshedMetrics
  <2>4. FreeVariablesTyped
    BY <1>n, <2>1, <2>2 DEF DriverTypeOK, FreeVariablesTyped
  <2>5. trace' \in Seq(TraceSteps) /\ TraceFaithful'
    BY <1>n, <2>1 DEF DriverInv, DriverTypeOK, TraceFaithful
  <2>6. Len(trace') = metrics.semantic + (IF lifecycle' = "Terminal" THEN 1 ELSE 0)
    BY <1>n, <2>1, <2>2, Numbers, AwaitingNumbers
  <2> QED
    BY <1>n, <2>1, <2>2, <2>3, <2>4, <2>5, <2>6, Numbers, AwaitingNumbers, ClosedInv
       DEF ClosedLifecycles
<1>2. ASSUME NEW r \in Requests, PickPublished(k, r) PROVE DriverInv'
  <2>1. /\ lifecycle = "AwaitingDecision" /\ lifecycle' = "AwaitingDecision"
        /\ UNCHANGED <<control, nextProcessIndex, processed, engine, responded, host, failure>>
        /\ CommitStep(FALSE) /\ accepted' = "unsubmitted" /\ request' = r
        /\ metrics' = Refreshed(CountedPick)
        /\ ~(Counted.semantic >= control.semantic)
    BY <1>2 DEF PickPublished, ApplyPick, Selecting, SemanticBudgetSpent
  <2>2. /\ MetricsBecome(metrics.semantic + 1, metrics.interactive, metrics.intermediate + 1)
        /\ metrics.semantic + 1 < control.semantic
    BY <1>n, <2>1, Numbers, CountedMetrics, RefreshedMetrics
  <2>3. FreeVariablesTyped
    BY <1>n, <2>1 DEF DriverTypeOK, FreeVariablesTyped
  <2>4. /\ trace' \in Seq(TraceSteps) /\ TraceFaithful'
        /\ Len(trace') = Len(trace) + 1
        /\ LastStep'.engine_step = nextProcessIndex - 1
        /\ LastStep'.responds = FALSE /\ LastStep'.terminal = FALSE
        /\ traceDecisionIndex' = traceDecisionIndex + 1
        /\ traceDecisionIndex' \in 0..MaxIndex
    BY <2>1, CommittedTrace
  <2>5. DriverTypeOK'
    BY <1>n, <2>1, <2>2, <2>3, <2>4 DEF DriverTypeOK, FreeVariablesTyped, MetricsBecome
  <2>6. EngineMatchesCall' /\ IndicesMatchCounts' /\ LastStepMatchesCall'
    BY <1>n, <2>1, <2>4, Numbers, AwaitingNumbers
       DEF EngineMatchesCall, IndicesMatchCounts, LastStepMatchesCall, Ongoing
  <2>7. ActionAccounting' /\ BudgetsRespected' /\ MetricsExactAtBoundary'
    <3>1. ActionAccounting'
      <4>1. /\ metrics'.semantic = metrics.semantic + 1 /\ Len(trace') = metrics.semantic + 1
            /\ metrics'.interactive = metrics.interactive
            /\ metrics'.intermediate = metrics.intermediate + 1
        BY <1>n, <2>1, <2>2, <2>4, AwaitingNumbers DEF MetricsBecome
      <4>2. /\ metrics.semantic + 1 = (metrics.intermediate + 1) + responded
            /\ metrics.interactive = responded + 1 /\ metrics.semantic \in Nat
        BY <1>n, <2>1, Numbers, AwaitingNumbers
      <4> QED
        BY ONLY <2>1, <4>1, <4>2 DEF ActionAccounting
    <3>2. BudgetsRespected'
      BY <1>n, <2>1, <2>2, Numbers, AwaitingNumbers
         DEF BudgetsRespected, MetricsBecome
    <3>3. MetricsExactAtBoundary'
      BY <2>2 DEF MetricsExactAtBoundary, MetricsBecome
    <3> QED
      BY <3>1, <3>2, <3>3
  <2> QED  BY <2>4, <2>5, <2>6, <2>7 DEF DriverInv
<1>3. CASE PickUnpublishable(k)
  <2>1. /\ lifecycle = "AwaitingDecision" /\ control' = control /\ accepted' = "unsubmitted"
        /\ UNCHANGED <<nextProcessIndex, processed, engine, responded>> /\ CommitStep(FALSE)
        /\ CloseWithFailure(CountedPick, "advance", FALSE)
    BY <1>3 DEF PickUnpublishable, ApplyPick, Selecting
  <2>2. /\ host' \in BOOLEAN
        /\ request' = None
        /\ failure' \in DriverFailures
        /\ lifecycle' \in ClosedLifecycles \ {"Terminal"}
        /\ metrics' = Refreshed(CountedPick)
    BY <2>1, CloseWithFailureTyped
  <2>3. MetricsBecome(metrics.semantic + 1, metrics.interactive, metrics.intermediate + 1)
    BY <1>n, <2>1, <2>2, Numbers, CountedMetrics, RefreshedMetrics
  <2>4. FreeVariablesTyped
    BY <1>n, <2>1, <2>2 DEF DriverTypeOK, FreeVariablesTyped
  <2>9. /\ responded' \in Nat /\ metrics.intermediate + 1 \in Nat
        /\ metrics.semantic + 1 = (metrics.intermediate + 1) + responded'
    <3>1. responded' = responded
      BY <2>1
    <3>2. /\ responded \in Nat /\ metrics.intermediate \in Nat
          /\ metrics.semantic = metrics.intermediate + responded
      BY <1>n, <2>1, Numbers, AwaitingNumbers
    <3> QED
      BY ONLY <3>1, <3>2
  <2> QED
    BY <1>n, <2>1, <2>2, <2>3, <2>4, <2>9, ApplyClosesInv
<1>4. CASE PickOverBudget(k)
  <2>1. /\ lifecycle = "AwaitingDecision" /\ lifecycle' \in ClosedLifecycles \ {"Terminal"}
        /\ UNCHANGED <<control, nextProcessIndex, processed, engine, responded, host, failure>>
        /\ CommitStep(FALSE) /\ accepted' = "unsubmitted" /\ request' = None
        /\ metrics' = Refreshed(CountedPick)
    BY <1>4 DEF PickOverBudget, ApplyPick, Selecting, ClosedLifecycles
  <2>2. MetricsBecome(metrics.semantic + 1, metrics.interactive, metrics.intermediate + 1)
    BY <1>n, <2>1, Numbers, CountedMetrics, RefreshedMetrics
  <2>3. FreeVariablesTyped
    BY <1>n, <2>1 DEF DriverTypeOK, FreeVariablesTyped
  <2>9. /\ responded' \in Nat /\ metrics.intermediate + 1 \in Nat
        /\ metrics.semantic + 1 = (metrics.intermediate + 1) + responded'
    <3>1. responded' = responded
      BY <2>1
    <3>2. /\ responded \in Nat /\ metrics.intermediate \in Nat
          /\ metrics.semantic = metrics.intermediate + responded
      BY <1>n, <2>1, Numbers, AwaitingNumbers
    <3> QED
      BY ONLY <3>1, <3>2
  <2> QED
    BY <1>n, <2>1, <2>2, <2>3, <2>9, ApplyClosesInv
<1>5. CASE ResponseSubmitted(k)
  <2>1. /\ lifecycle = "AwaitingDecision" /\ lifecycle' = "Advancing"
        /\ UNCHANGED <<control, nextProcessIndex, processed, host, failure>>
        /\ CommitStep(TRUE) /\ accepted' = "submitted" /\ request' = None
        /\ engine' = "running" /\ responded' = responded + 1
        /\ metrics' = Refreshed(Counted)
    BY <1>5 DEF ResponseSubmitted, ApplyFinal, Selecting
  <2>2. MetricsBecome(metrics.semantic + 1, metrics.interactive, metrics.intermediate)
    BY <1>n, <2>1, Numbers, CountedMetrics, RefreshedMetrics
  <2>3. FreeVariablesTyped
    BY <1>n, <2>1 DEF DriverTypeOK, FreeVariablesTyped
  <2>4. /\ trace' \in Seq(TraceSteps) /\ TraceFaithful'
        /\ Len(trace') = Len(trace) + 1
        /\ LastStep'.engine_step = nextProcessIndex - 1
        /\ LastStep'.responds = TRUE /\ LastStep'.terminal = FALSE
        /\ traceDecisionIndex' = traceDecisionIndex + 1
        /\ traceDecisionIndex' \in 0..MaxIndex
    BY <2>1, CommittedTrace
  <2>5. DriverTypeOK'
    BY <1>n, <2>1, <2>2, <2>3, <2>4 DEF DriverTypeOK, FreeVariablesTyped, MetricsBecome
  <2>6. EngineMatchesCall' /\ IndicesMatchCounts' /\ LastStepMatchesCall'
    BY <1>n, <2>1, <2>4, Numbers, AwaitingNumbers
       DEF EngineMatchesCall, IndicesMatchCounts, LastStepMatchesCall, Ongoing
  <2>7. ActionAccounting' /\ BudgetsRespected' /\ MetricsExactAtBoundary'
    <3>1. ActionAccounting'
      <4>1. /\ metrics'.semantic = metrics.semantic + 1 /\ Len(trace') = metrics.semantic + 1
            /\ metrics'.interactive = metrics.interactive
            /\ metrics'.intermediate = metrics.intermediate
        BY <1>n, <2>1, <2>2, <2>4, AwaitingNumbers DEF MetricsBecome
      <4>2. /\ metrics.semantic + 1 = metrics.intermediate + (responded + 1)
            /\ metrics.interactive = responded + 1 /\ metrics.semantic \in Nat
        BY <1>n, <2>1, Numbers, AwaitingNumbers
      <4> QED
        BY ONLY <2>1, <4>1, <4>2 DEF ActionAccounting
    <3>2. BudgetsRespected'
      BY <1>n, <2>1, <2>2, Numbers, AwaitingNumbers
         DEF BudgetsRespected, MetricsBecome, ClosedLifecycles
    <3>3. MetricsExactAtBoundary'
      BY <2>2 DEF MetricsExactAtBoundary, MetricsBecome
    <3> QED
      BY <3>1, <3>2, <3>3
  <2> QED  BY <2>4, <2>5, <2>6, <2>7 DEF DriverInv
<1>6. CASE ResponseInconsistent(k)
  <2>1. /\ lifecycle = "AwaitingDecision" /\ control' = control /\ accepted' = "unsubmitted"
        /\ UNCHANGED <<nextProcessIndex, processed>> /\ CommitStep(TRUE)
        /\ engine' = "running" /\ responded' = responded + 1
        /\ CloseWithFailure(Counted, "action", TRUE)
    BY <1>6 DEF ResponseInconsistent, ApplyFinal, Selecting
  <2>2. /\ host' \in BOOLEAN
        /\ request' = None
        /\ failure' \in DriverFailures
        /\ lifecycle' \in ClosedLifecycles \ {"Terminal"}
        /\ metrics' = Refreshed(Counted)
    BY <2>1, CloseWithFailureTyped
  <2>3. MetricsBecome(metrics.semantic + 1, metrics.interactive, metrics.intermediate)
    BY <1>n, <2>1, <2>2, Numbers, CountedMetrics, RefreshedMetrics
  <2>4. FreeVariablesTyped
    BY <1>n, <2>1, <2>2 DEF DriverTypeOK, FreeVariablesTyped
  <2>9. /\ responded' \in Nat /\ metrics.intermediate \in Nat
        /\ metrics.semantic + 1 = (metrics.intermediate) + responded'
    BY <1>n, <2>1, Numbers, AwaitingNumbers
  <2> QED
    BY <1>n, <2>1, <2>2, <2>3, <2>4, <2>9, ApplyClosesInv
<1> QED  BY <1>1, <1>2, <1>3, <1>4, <1>5, <1>6 DEF ApplyStep

(* An interrupt keeps the invariant. *)
LEMMA InterruptInv ==
    ASSUME DriverInv, AdministrativeInterrupt PROVE DriverInv'
<1>n. DriverTypeOK
  BY DEF DriverInv
<1>0. host' \in BOOLEAN
  BY Zenon DEF AdministrativeInterrupt
<1>1. /\ lifecycle = "AwaitingDecision" /\ lifecycle' \in ClosedLifecycles \ {"Terminal"}
      /\ UNCHANGED <<control, nextProcessIndex, processed, engine, responded, failure, accepted,
                     trace, traceDecisionIndex>>
      /\ request' = None
      /\ metrics' = Refreshed(metrics)
  BY DEF AdministrativeInterrupt, ClosedLifecycles
<1>2. MetricsBecome(metrics.semantic, metrics.interactive, metrics.intermediate)
  BY <1>n, <1>1, Numbers, RefreshedMetrics
<1>3. FreeVariablesTyped
  BY <1>n, <1>0, <1>1 DEF DriverTypeOK, FreeVariablesTyped
<1>4. trace' \in Seq(TraceSteps) /\ TraceFaithful'
  BY <1>n, <1>1 DEF DriverInv, DriverTypeOK, TraceFaithful
<1>5. Len(trace') = metrics.semantic + (IF lifecycle' = "Terminal" THEN 1 ELSE 0)
  BY <1>n, <1>1, Numbers, AwaitingNumbers
<1> QED
  BY <1>n, <1>1, <1>2, <1>3, <1>4, <1>5, Numbers, AwaitingNumbers, ClosedInv DEF ClosedLifecycles

(* A stuttering step changes nothing the invariant speaks of. *)
LEMMA StutterInv ==
    ASSUME DriverInv, UNCHANGED driverVars PROVE DriverInv'
BY DEF driverVars, DriverInv, DriverTypeOK, EngineMatchesCall, IndicesMatchCounts, LastStepMatchesCall,
   LastStep, Ongoing, ActionAccounting, TraceFaithful, BudgetsRespected, MetricsExactAtBoundary

----------------------------------------------------------------------------
(***************************************************************************)
(* The theorems.                                                            *)
(***************************************************************************)

(* The invariant holds of every behaviour of the driver. *)
THEOREM DriverInvariant == DriverSpec => []DriverInv
<1>1. DriverInit => DriverInv
  BY InitInv
<1>2. DriverInv /\ [DriverNext]_driverVars => DriverInv'
  BY AdvanceStepInv, ApplyStepInv, InterruptInv, StutterInv DEF DriverNext
<1> QED  BY <1>1, <1>2, PTL DEF DriverSpec

(* Every state of the driver has the types of its members. *)
THEOREM DriverTyped == DriverSpec => []DriverTypeOK
<1>1. DriverInv => DriverTypeOK
  BY DEF DriverInv
<1> QED  BY <1>1, DriverInvariant, PTL

(* No action is lost or counted twice between engine, trace and metrics. *)
THEOREM DriverAccountsForActions == DriverSpec => []ActionAccounting
<1>1. DriverInv => ActionAccounting
  BY DEF DriverInv
<1> QED  BY <1>1, DriverInvariant, PTL

(* The trace a driver reports is contiguous and in engine order. *)
THEOREM DriverTraceFaithful == DriverSpec => []TraceFaithful
<1>1. DriverInv => TraceFaithful
  BY DEF DriverInv
<1> QED  BY <1>1, DriverInvariant, PTL

(* The budgets hold for every engine, however long it runs. *)
THEOREM DriverBudgets == DriverSpec => []BudgetsRespected
<1>1. DriverInv => BudgetsRespected
  BY DEF DriverInv
<1> QED  BY <1>1, DriverInvariant, PTL

(* Callers read the engine's counters, also after the engine is gone. *)
THEOREM DriverMetricsExact == DriverSpec => []MetricsExactAtBoundary
<1>1. DriverInv => MetricsExactAtBoundary
  BY DEF DriverInv
<1> QED  BY <1>1, DriverInvariant, PTL

(* The engine is called in turn: it runs, it waits, it is answered once. *)
THEOREM DriverEngineInTurn == DriverSpec => EngineInTurn
<1> DEFINE InTurn ==
        /\ processed' # processed => engine = "running" /\ host
        /\ responded' # responded => engine = "waiting" /\ host /\ responded' = responded + 1
        /\ processed' = processed \/ responded' = responded
<1>1. DriverInv /\ [DriverNext]_driverVars => [InTurn]_driverVars
  <2> SUFFICES ASSUME DriverInv, DriverNext PROVE InTurn
    BY DEF driverVars
  <2>1. CASE AdvanceStep
    <3>1. responded' = responded /\ lifecycle = "Advancing"
      BY <2>1 DEF AdvanceStep, ProcessThrows, MessageRefused, MessageWithoutDecision, MessageTerminal,
         MessageTerminalFails, DecisionOverBudget, DecisionPublished, DecisionUnpublishable,
         ProcessBudgetSpent, ProcessIndexOverflow, MessageDecision, TakeTerminalIndex, ReceiveMessage,
         CallProcess
    <3> QED  BY <3>1, AdvancingNumbers
  <2>2. ASSUME NEW k \in Keys, ApplyStep(k) PROVE InTurn
    <3>1. /\ lifecycle = "AwaitingDecision"
          /\ processed' = processed
          /\ responded' \in {responded, responded + 1}
      BY <2>2 DEF ApplyStep, ApplyFailsUncounted, PickPublished, PickUnpublishable, PickOverBudget,
         ResponseSubmitted, ResponseInconsistent, ApplyPick, ApplyFinal, Selecting
    <3> QED  BY <3>1, AwaitingNumbers
  <2>3. CASE AdministrativeInterrupt
    BY <2>3 DEF AdministrativeInterrupt
  <2> QED  BY <2>1, <2>2, <2>3 DEF DriverNext
<1> QED  BY <1>1, DriverInvariant, PTL DEF DriverSpec, EngineInTurn

----------------------------------------------------------------------------
(***************************************************************************)
(* The environment: its inductive invariant.                                *)
(***************************************************************************)

(* The driver's own invariant speaks of a driver that exists; of a          *)
(* destroyed one only the types of its last counters are left.              *)
DriverSound ==
    /\ DriverTypeOK
    /\ lifecycle # "Absent" => DriverInv
    /\ lifecycle = "Absent" => ~host
    /\ lifecycle = "AwaitingDecision" => request \in Requests

(* Where a public call is, and what the facade holds meanwhile. *)
CallMatchesDriver ==
    /\ call = "idle" => lifecycle = IF state = "AwaitingAction" THEN "AwaitingDecision" ELSE "Absent"
    /\ call # "idle" => lifecycle # "Absent"
    /\ call = "interrupt" => lifecycle = "Interrupted"
    /\ call \in {"step", "interrupt"} => state = "AwaitingAction"
    /\ call = "reset" => state # "AwaitingAction"
    /\ (frame # None) = (state = "AwaitingAction")
    /\ episode = None => call = "idle" /\ state = "Empty"

(* What an awaited frame offers is bound to what the driver would take. *)
FrameMatchesRequest ==
    call = "idle" /\ frame # None =>
        /\ frame.keys = {PublicKey(k) : k \in Candidates(request)}
        /\ bindings = BindingsFor(request)

(* No closure while an episode runs, and the right one after its end. *)
ClosuresMatchState ==
    LET closed(s) == call = "idle" /\ state = s
    IN  /\ (terminal # None) = closed("GameTerminal")
        /\ (interruption # None) = closed("Interrupted")
        /\ (failed # None) = closed("Failed")
        /\ views = IF closed("GameTerminal") THEN {0, 1} ELSE {}

(* Generations only grow: the current frame has the highest one issued, and *)
(* until a step accepts an action for it, no accepted action has it.        *)
GenerationsGrow ==
    /\ frame # None => frame \in published /\ frame.token.generation = generation
    /\ \A f \in published : f.token.generation <= generation
    /\ \A i \in DOMAIN transitions : transitions[i].token.generation <= generation
    /\ frame # None /\ call # "step" =>
           \A i \in DOMAIN transitions : transitions[i].token.generation < generation

(* A published frame is identified by its generation, and its decision ID   *)
(* names the episode it belongs to.                                         *)
FramesIdentified ==
    /\ \A f, g \in published : f.token.generation = g.token.generation => f = g
    /\ \A f \in published : f.decision.episode = f.episode

EnvironmentInv ==
    /\ EnvironmentTypeOK
    /\ DriverSound
    /\ CallMatchesDriver
    /\ FrameMatchesRequest
    /\ ClosuresMatchState
    /\ GenerationsGrow
    /\ FramesIdentified
    /\ AtMostOneActionPerFrame

----------------------------------------------------------------------------
(* The driver under the facade. *)

(* The constructor leaves a driver that satisfies its invariant. *)
LEMMA ConstructSound ==
    ASSUME NEW c \in Controls, Construct(c) PROVE DriverSound'
<1>1. DriverInit'
  BY DEF Construct, NothingHappenedYet, DriverInit
<1>2. DriverInit' => DriverInv'
  BY InitInv, PTL
<1>3. DriverInv' /\ DriverTypeOK'
  BY <1>1, <1>2 DEF DriverInv
<1> QED  BY <1>1, <1>3 DEF DriverSound, DriverInit

(* A constructor that throws and a destructor leave no driver. *)
LEMMA AbsentSound ==
    ASSUME DriverTypeOK, ConstructThrows \/ Destroy PROVE DriverSound'
<1>1. lifecycle' = "Absent" /\ host' = FALSE
  BY DEF ConstructThrows, Destroy
<1>2. DriverTypeOK'
  <2>1. CASE ConstructThrows
    <3>1. trace' \in Seq(TraceSteps)
      BY <2>1 DEF ConstructThrows, NothingHappenedYet
    <3>3. host' \in BOOLEAN
      BY <2>1, Zenon DEF ConstructThrows
    <3>2. metrics' \in Metrics /\ failure' \in DriverFailures
      BY <2>1 DEF ConstructThrows, NothingHappenedYet, NoMetrics, Metrics, NoFailure, DriverFailures
    <3> QED
      BY <2>1, <3>1, <3>2, <3>3, DriverAssumption DEF DriverAssumption, DriverTypeOK, ConstructThrows,
         NothingHappenedYet
  <2>2. CASE Destroy
    <3>1. host' \in BOOLEAN
      BY <2>2 DEF Destroy
    <3> QED  BY <2>2, <3>1 DEF DriverTypeOK, Destroy
  <2> QED  BY <2>1, <2>2
<1> QED  BY <1>1, <1>2 DEF DriverSound

(* A step inside a call leaves the driver with its invariant, and present. *)
LEMMA AdvanceSound ==
    ASSUME DriverSound, AdvanceStep PROVE DriverSound' /\ lifecycle = "Advancing" /\ lifecycle' # "Absent"
<1> USE DEF AdvanceStep, ProcessThrows, MessageRefused, MessageWithoutDecision, MessageTerminal,
       MessageTerminalFails, DecisionOverBudget, DecisionPublished, DecisionUnpublishable,
       ProcessBudgetSpent, ProcessIndexOverflow, MessageDecision, TakeTerminalIndex, ReceiveMessage,
       CallProcess, CloseWithFailure, CloseAt
<1>1. lifecycle = "Advancing"
  OBVIOUS
<1>2. lifecycle' \in {"Advancing", "AwaitingDecision"} \cup ClosedLifecycles
  BY <1>1 DEF ClosedLifecycles
<1>3. lifecycle' = "AwaitingDecision" => request' \in Requests
  BY <1>1
<1>4. lifecycle' # "Absent"
  BY <1>2 DEF ClosedLifecycles
<1>5. DriverInv
  BY <1>1 DEF DriverSound
<1>6. DriverInv'
  BY <1>5, AdvanceStepInv
<1>7. DriverTypeOK'
  BY <1>6 DEF DriverInv
<1> QED  BY <1>1, <1>3, <1>4, <1>6, <1>7 DEF DriverSound

(* So does an accepted action. *)
LEMMA ApplySound ==
    ASSUME DriverSound, NEW k \in Keys, ApplyStep(k)
    PROVE  DriverSound' /\ lifecycle = "AwaitingDecision" /\ lifecycle' # "Absent"
<1> USE DEF ApplyStep, ApplyFailsUncounted, PickPublished, PickUnpublishable, PickOverBudget,
       ResponseSubmitted, ResponseInconsistent, ApplyPick, ApplyFinal, Selecting, CloseWithFailure
<1>1. lifecycle = "AwaitingDecision"
  OBVIOUS
<1>2. /\ lifecycle' \in {"Advancing", "AwaitingDecision", "Failed", "SemanticBudgetExhausted"}
      /\ lifecycle' = "AwaitingDecision" => request' \in Requests
  BY <1>1
<1>5. DriverInv
  BY <1>1 DEF DriverSound
<1>6. DriverInv'
  BY <1>5, ApplyStepInv
<1>7. DriverTypeOK'
  BY <1>6 DEF DriverInv
<1> QED  BY <1>1, <1>2, <1>6, <1>7 DEF DriverSound

(* And the interrupt, which leaves the driver closed. *)
LEMMA InterruptSound ==
    ASSUME DriverSound, AdministrativeInterrupt
    PROVE  DriverSound' /\ lifecycle = "AwaitingDecision" /\ lifecycle' = "Interrupted"
<1>1. lifecycle = "AwaitingDecision" /\ lifecycle' = "Interrupted"
  BY DEF AdministrativeInterrupt
<1>2. DriverInv'
  BY <1>1, InterruptInv DEF DriverSound
<1> QED  BY <1>1, <1>2 DEF DriverSound, DriverInv

(* Steps of the facade alone do not disturb the driver. *)
LEMMA UntouchedSound ==
    ASSUME DriverSound, UNCHANGED driverVars PROVE DriverSound'
<1>1. DriverTypeOK'
  BY DEF DriverSound, DriverTypeOK, driverVars
<1>2. lifecycle' # "Absent" => DriverInv'
  BY StutterInv DEF DriverSound, driverVars
<1> QED  BY <1>1, <1>2 DEF DriverSound, driverVars

----------------------------------------------------------------------------
(* The facade: calls that begin. *)

(* create: no episode, no driver. *)
LEMMA InitEnvironmentInv == EnvironmentInit => EnvironmentInv
<1> SUFFICES ASSUME EnvironmentInit PROVE EnvironmentInv
  OBVIOUS
<1> USE DEF EnvironmentInit
<1>a. host \in BOOLEAN
  BY Zenon
<1>b. metrics \in Metrics /\ failure \in DriverFailures
  BY DEF NoMetrics, Metrics, NoFailure, DriverFailures
<1>c. trace \in Seq(TraceSteps)
  OBVIOUS
<1>1. DriverTypeOK
  BY <1>a, <1>b, <1>c, DriverAssumption DEF DriverAssumption, DriverTypeOK
<1>2. DriverSound
  BY <1>1 DEF DriverSound
<1>3. EnvironmentTypeOK
  BY <1>1, EnvironmentAssumption DEF EnvironmentAssumption, EnvironmentTypeOK
<1>4. CallMatchesDriver /\ FrameMatchesRequest /\ ClosuresMatchState
  BY DEF CallMatchesDriver, FrameMatchesRequest, ClosuresMatchState
<1>5. GenerationsGrow /\ FramesIdentified /\ AtMostOneActionPerFrame
  BY DEF GenerationsGrow, FramesIdentified, AtMostOneActionPerFrame
<1> QED  BY <1>2, <1>3, <1>4, <1>5 DEF EnvironmentInv

(* An accepted reset takes the next incarnation and abandons nothing. *)
LEMMA BeginEpisodeFacts ==
    ASSUME EnvironmentInv, NEW s \in Specs, BeginEpisode(s)
    PROVE  /\ call = "idle"
           /\ state \in {"Empty", "GameTerminal", "Interrupted", "Failed"}
           /\ incarnation' \in 0..TokenMax
           /\ episode' \in Specs /\ episode' # None
           /\ publicDecisionIndex' \in Nat
           /\ UNCHANGED <<generation, published, transitions>>
<1>1. /\ state # "AwaitingAction"
      /\ incarnation # TokenMax
  BY DEF BeginEpisode, ResetVerdict
<1>2. incarnation \in 0..TokenMax /\ TokenMax \in Nat
  BY EnvironmentAssumption DEF EnvironmentAssumption, EnvironmentInv, EnvironmentTypeOK
<1> QED
  BY <1>1, <1>2, EnvironmentAssumption
     DEF EnvironmentAssumption, BeginEpisode, historyVars, EnvironmentInv, EnvironmentTypeOK

LEMMA ResetAcceptedInv ==
    ASSUME EnvironmentInv, NEW s \in Specs, NEW c \in Controls, ResetAccepted(s, c)
    PROVE  EnvironmentInv'
<1>1. BeginEpisode(s) /\ Construct(c)
  BY DEF ResetAccepted
<1>2. /\ frame' = None /\ terminal' = None /\ interruption' = None /\ failed' = None
      /\ views' = {} /\ call' = "reset" /\ state' = state /\ bindings' = bindings
  BY DEF ResetAccepted
<1>3. DriverSound' /\ DriverTypeOK'
  BY <1>1, ConstructSound DEF DriverSound
<1>4. lifecycle' = "Advancing"
  BY <1>1 DEF Construct
<1>5. EnvironmentTypeOK'
  BY <1>1, <1>2, <1>3, BeginEpisodeFacts DEF EnvironmentInv, EnvironmentTypeOK
<1>6. CallMatchesDriver'
  BY <1>1, <1>2, <1>4, BeginEpisodeFacts DEF CallMatchesDriver
<1>7. FrameMatchesRequest' /\ ClosuresMatchState'
  BY <1>2 DEF FrameMatchesRequest, ClosuresMatchState
<1>8. GenerationsGrow' /\ FramesIdentified' /\ AtMostOneActionPerFrame'
  BY <1>1, <1>2, BeginEpisodeFacts DEF EnvironmentInv, GenerationsGrow, FramesIdentified, AtMostOneActionPerFrame
<1> QED  BY <1>3, <1>5, <1>6, <1>7, <1>8 DEF EnvironmentInv

(* An accepted action: the frame is answered, and was not answered before. *)
LEMMA StepAcceptedInv ==
    ASSUME EnvironmentInv, NEW sel \in SubmittedSelections, StepAccepted(sel)
    PROVE  EnvironmentInv'
<1> DEFINE entry == [token |-> frame.token, index |-> frame.index,
                     submitted |-> accepted' = "submitted"]
<1>1. /\ call = "idle" /\ call' = "step"
      /\ frame # None /\ state = "AwaitingAction"
      /\ transitions' = Append(transitions, entry)
      /\ UNCHANGED <<state, counterVars, frameVars, closureVars, published>>
  BY DEF StepAccepted, StepVerdict, Live
<1>2. PICK b \in Resolved(sel.key) : ApplyStep(b.semantic)
  BY DEF StepAccepted
<1>3. b.semantic \in Keys
  BY <1>2 DEF Resolved, EnvironmentInv, EnvironmentTypeOK
<1>4. DriverSound' /\ DriverTypeOK' /\ lifecycle' # "Absent"
  BY <1>2, <1>3, ApplySound DEF EnvironmentInv, DriverSound
<1>5. /\ frame \in Frames
      /\ transitions \in Seq(Transitions)
  BY <1>1 DEF EnvironmentInv, EnvironmentTypeOK
<1>6. frame.token \in Tokens /\ frame.index \in Nat
  BY <1>5 DEF Frames
<1>a. entry.submitted \in BOOLEAN
  BY Zenon
<1>7. entry \in Transitions
  BY <1>6, <1>a DEF Transitions
<1>8. transitions' \in Seq(Transitions)
  BY <1>1, <1>5, <1>7
<1>9. EnvironmentTypeOK'
  BY <1>1, <1>4, <1>8 DEF EnvironmentInv, EnvironmentTypeOK, counterVars, frameVars, closureVars
<1>10. CallMatchesDriver' /\ FrameMatchesRequest' /\ ClosuresMatchState'
  BY <1>1, <1>4 DEF EnvironmentInv, CallMatchesDriver, FrameMatchesRequest, ClosuresMatchState,
     counterVars, frameVars, closureVars
<1>11. /\ Len(transitions') = Len(transitions) + 1
       /\ Len(transitions) \in Nat
       /\ DOMAIN transitions = 1..Len(transitions)
       /\ DOMAIN transitions' = 1..(Len(transitions) + 1)
       /\ \A i \in DOMAIN transitions : transitions'[i] = transitions[i]
       /\ transitions'[Len(transitions) + 1] = entry
  BY <1>1, <1>5
<1>12. /\ entry.token = frame.token
       /\ frame.token.generation = generation
       /\ frame.token.generation \in Nat
       /\ \A i \in DOMAIN transitions : transitions[i].token.generation < generation
  BY <1>1, <1>6 DEF EnvironmentInv, GenerationsGrow, Tokens
<1>13. GenerationsGrow'
  BY <1>1, <1>11, <1>12 DEF EnvironmentInv, GenerationsGrow, counterVars, frameVars
<1>14. AtMostOneActionPerFrame'
  BY <1>11, <1>12 DEF EnvironmentInv, AtMostOneActionPerFrame
<1>15. FramesIdentified'
  BY <1>1 DEF EnvironmentInv, FramesIdentified
<1> QED  BY <1>4, <1>9, <1>10, <1>13, <1>14, <1>15 DEF EnvironmentInv

LEMMA InterruptAcceptedInv ==
    ASSUME EnvironmentInv, InterruptAccepted PROVE EnvironmentInv'
<1>1. /\ call = "idle" /\ call' = "interrupt"
      /\ frame # None /\ state = "AwaitingAction"
      /\ UNCHANGED <<state, counterVars, frameVars, closureVars, historyVars>>
  BY DEF InterruptAccepted, InterruptVerdict, Live
<1>2. DriverSound' /\ DriverTypeOK' /\ lifecycle' = "Interrupted"
  BY InterruptSound DEF InterruptAccepted, EnvironmentInv, DriverSound
<1>3. EnvironmentTypeOK'
  BY <1>1, <1>2 DEF EnvironmentInv, EnvironmentTypeOK, counterVars, frameVars, closureVars, historyVars
<1>4. CallMatchesDriver' /\ FrameMatchesRequest' /\ ClosuresMatchState'
  BY <1>1, <1>2 DEF EnvironmentInv, CallMatchesDriver, FrameMatchesRequest, ClosuresMatchState,
     counterVars, frameVars, closureVars
<1>5. GenerationsGrow' /\ FramesIdentified' /\ AtMostOneActionPerFrame'
  BY <1>1 DEF EnvironmentInv, GenerationsGrow, FramesIdentified, AtMostOneActionPerFrame, counterVars, frameVars,
     historyVars
<1> QED  BY <1>2, <1>3, <1>4, <1>5 DEF EnvironmentInv

(* The driver's loop under a call: the facade is not touched. *)
LEMMA DriverAdvancesInv ==
    ASSUME EnvironmentInv, DriverAdvances PROVE EnvironmentInv'
<1>1. call # "idle" /\ AdvanceStep /\ UNCHANGED environmentVars
  BY DEF DriverAdvances
<1>2. DriverSound' /\ DriverTypeOK' /\ lifecycle = "Advancing" /\ lifecycle' # "Absent"
  BY <1>1, AdvanceSound DEF EnvironmentInv, DriverSound
<1> USE <1>1 DEF environmentVars, counterVars, frameVars, closureVars, historyVars
<1>3. EnvironmentTypeOK'
  BY <1>2 DEF EnvironmentInv, EnvironmentTypeOK
<1>4. CallMatchesDriver' /\ FrameMatchesRequest' /\ ClosuresMatchState'
  BY <1>2 DEF EnvironmentInv, CallMatchesDriver, FrameMatchesRequest, ClosuresMatchState
<1>5. GenerationsGrow' /\ FramesIdentified' /\ AtMostOneActionPerFrame'
  BY DEF EnvironmentInv, GenerationsGrow, FramesIdentified, AtMostOneActionPerFrame
<1> QED  BY <1>2, <1>3, <1>4, <1>5 DEF EnvironmentInv

(* A rejected call and a stuttering step. *)
LEMMA RejectedInv ==
    ASSUME EnvironmentInv, UNCHANGED vars PROVE EnvironmentInv'
<1>1. UNCHANGED driverVars /\ UNCHANGED environmentVars
  BY DEF vars
<1>2. DriverSound' /\ DriverTypeOK'
  BY <1>1, UntouchedSound DEF EnvironmentInv, DriverSound
<1> USE <1>1 DEF environmentVars, counterVars, frameVars, closureVars, historyVars
<1>3. EnvironmentTypeOK'
  BY <1>2 DEF EnvironmentInv, EnvironmentTypeOK
<1>4. CallMatchesDriver' /\ FrameMatchesRequest' /\ ClosuresMatchState'
  BY DEF EnvironmentInv, CallMatchesDriver, FrameMatchesRequest, ClosuresMatchState, driverVars,
     BindingsFor
<1>5. GenerationsGrow' /\ FramesIdentified' /\ AtMostOneActionPerFrame'
  BY DEF EnvironmentInv, GenerationsGrow, FramesIdentified, AtMostOneActionPerFrame
<1> QED  BY <1>2, <1>3, <1>4, <1>5 DEF EnvironmentInv

----------------------------------------------------------------------------
(* The facade: calls that return. *)

(* A boundary that asks for an action becomes a frame of a new generation. *)
LEMMA NewFrame ==
    ASSUME EnvironmentInv, call # "idle", lifecycle = "AwaitingDecision", GenerationLeft
    PROVE  /\ NextIndex \in Nat
           /\ generation + 1 \in 0..TokenMax
           /\ FrameFor(request, NextIndex) \in Frames
           /\ FrameFor(request, NextIndex).token
                  = [incarnation |-> incarnation, generation |-> generation + 1]
<1>1. /\ generation \in 0..TokenMax /\ incarnation \in 0..TokenMax /\ TokenMax \in Nat
      /\ frame \in Frames \cup {None}
  BY EnvironmentAssumption DEF EnvironmentAssumption, EnvironmentInv, EnvironmentTypeOK
<1>2. episode \in Specs
  BY DEF EnvironmentInv, EnvironmentTypeOK, CallMatchesDriver
<1>3. request \in Requests
  BY DEF EnvironmentInv, DriverSound
<1>4. NextIndex \in Nat
  <2>1. CASE call = "step"
    <3>1. frame \in Frames
      BY <1>1, <2>1 DEF EnvironmentInv, CallMatchesDriver
    <3> QED  BY <2>1, <3>1 DEF NextIndex, Frames
  <2>2. CASE call # "step"
    BY <2>2 DEF NextIndex
  <2> QED  BY <2>1, <2>2
<1>5. generation + 1 \in 0..TokenMax
  BY <1>1 DEF GenerationLeft
<1>6. {PublicKey(k) : k \in Candidates(request)} \subseteq {PublicKey(k) : k \in Keys}
  BY <1>3 DEF Candidates, Requests
<1>7. [episode |-> episode, index |-> NextIndex, content |-> request] \in DecisionIds
  BY <1>2, <1>3, <1>4 DEF DecisionIds
<1>8. [incarnation |-> incarnation, generation |-> generation + 1] \in Tokens
  BY <1>1, <1>5 DEF Tokens
<1> QED  BY <1>2, <1>4, <1>5, <1>6, <1>7, <1>8 DEF FrameFor, Frames

LEMMA FramePublishedInv ==
    ASSUME EnvironmentInv, FramePublished PROVE EnvironmentInv'
<1> DEFINE new == FrameFor(request, NextIndex)
<1>1. /\ call # "idle" /\ call' = "idle" /\ lifecycle = "AwaitingDecision"
      /\ GenerationLeft
      /\ generation' = generation + 1
      /\ publicDecisionIndex' = NextIndex
      /\ frame' = new
      /\ bindings' = BindingsFor(request)
      /\ published' = published \cup {new}
      /\ state' = "AwaitingAction"
      /\ terminal' = None /\ interruption' = None /\ failed' = None
      /\ UNCHANGED driverVars
      /\ UNCHANGED <<episode, incarnation, views, transitions>>
  BY DEF FramePublished, Consume
<1>2. /\ NextIndex \in Nat /\ generation + 1 \in 0..TokenMax
      /\ new \in Frames /\ new # None
      /\ new.token.generation = generation + 1
  BY <1>1, NewFrame, AbsenceAssumption
<1>3. DriverSound' /\ DriverTypeOK'
  BY <1>1, UntouchedSound DEF EnvironmentInv, DriverSound
<1>4. request \in Requests /\ request' = request /\ lifecycle' = lifecycle
  BY <1>1 DEF EnvironmentInv, DriverSound, driverVars
<1>5. bindings' \subseteq [public : {PublicKey(k) : k \in Keys}, semantic : Keys]
  BY <1>1, <1>4 DEF BindingsFor, Candidates, Requests
<1>6. EnvironmentTypeOK'
  BY <1>1, <1>2, <1>3, <1>5 DEF EnvironmentInv, EnvironmentTypeOK
<1>7. CallMatchesDriver'
  BY <1>1, <1>2, <1>4 DEF EnvironmentInv, CallMatchesDriver
<1>8. FrameMatchesRequest'
  BY <1>1, <1>4 DEF FrameMatchesRequest, FrameFor, BindingsFor
<1>9. views = {}
  BY <1>1 DEF EnvironmentInv, ClosuresMatchState
<1>10. ClosuresMatchState'
  BY <1>1, <1>9 DEF ClosuresMatchState
<1>a. generation \in Nat /\ published \subseteq Frames /\ transitions \in Seq(Transitions)
  BY EnvironmentAssumption DEF EnvironmentAssumption, EnvironmentInv, EnvironmentTypeOK
<1>b. \A f \in published : f.token.generation \in Nat
  BY <1>a DEF Frames, Tokens
<1>c. \A i \in DOMAIN transitions : transitions[i] \in Transitions
  BY <1>a
<1>11. \A i \in DOMAIN transitions : transitions[i].token.generation \in Nat
  BY <1>c DEF Transitions, Tokens
<1>12. GenerationsGrow'
  BY <1>1, <1>2, <1>a, <1>b, <1>11 DEF EnvironmentInv, GenerationsGrow
<1>13. AtMostOneActionPerFrame'
  BY <1>1 DEF EnvironmentInv, AtMostOneActionPerFrame
<1>14. \A f \in published : f.token.generation < new.token.generation
  BY <1>2, <1>a, <1>b DEF EnvironmentInv, GenerationsGrow
<1>d. new.decision.episode = new.episode
  BY DEF FrameFor
<1>15. FramesIdentified'
  BY <1>1, <1>2, <1>a, <1>b, <1>14, <1>d DEF EnvironmentInv, FramesIdentified
<1> QED  BY <1>3, <1>6, <1>7, <1>8, <1>10, <1>12, <1>13, <1>15 DEF EnvironmentInv

(* Whatever ends an episode releases the frame and destroys the driver. *)
LEMMA EpisodeClosesInv ==
    ASSUME EnvironmentInv, DriverSound', lifecycle' = "Absent",
           ReleaseFrame, call' = "idle",
           NEW ending \in {"GameTerminal", "Interrupted", "Failed"}, state' = ending,
           episode' \in Specs, publicDecisionIndex' \in Nat, incarnation' \in 0..TokenMax,
           UNCHANGED <<generation, published, transitions>>,
           terminal' \in IF ending = "GameTerminal" THEN Terminals ELSE {None},
           interruption' \in IF ending = "Interrupted" THEN Interruptions ELSE {None},
           failed' \in IF ending = "Failed" THEN Failures ELSE {None},
           views' = IF ending = "GameTerminal" THEN {0, 1} ELSE {}
    PROVE  EnvironmentInv'
<1>1. frame' = None /\ bindings' = {}
  BY DEF ReleaseFrame
<1>2. episode' # None
  BY EnvironmentAssumption DEF EnvironmentAssumption
<1>3. EnvironmentTypeOK'
  BY <1>1 DEF EnvironmentInv, EnvironmentTypeOK, DriverSound
<1>4. CallMatchesDriver' /\ FrameMatchesRequest'
  BY <1>1, <1>2 DEF CallMatchesDriver, FrameMatchesRequest
<1>5. ClosuresMatchState'
  BY AbsenceAssumption DEF ClosuresMatchState
<1>6. GenerationsGrow' /\ FramesIdentified' /\ AtMostOneActionPerFrame'
  BY <1>1 DEF EnvironmentInv, GenerationsGrow, FramesIdentified, AtMostOneActionPerFrame
<1> QED  BY <1>3, <1>4, <1>5, <1>6 DEF EnvironmentInv

(* What every closing boundary finds. *)
LEMMA ConsumeFacts ==
    ASSUME EnvironmentInv, call # "idle"
    PROVE  /\ DriverTypeOK
           /\ episode \in Specs /\ publicDecisionIndex \in Nat /\ incarnation \in 0..TokenMax
           /\ metrics.semantic \in Nat /\ metrics.process \in Nat
           /\ LastIndex \in Nat \cup {None}
           /\ LastDecision \in DecisionIds \cup {None}
           /\ failure.mutation \in BOOLEAN
           /\ terminal = None /\ interruption = None /\ failed = None
<1>1. DriverTypeOK /\ frame \in Frames \cup {None} /\ episode \in Specs
  BY DEF EnvironmentInv, EnvironmentTypeOK, CallMatchesDriver
<1>2. publicDecisionIndex \in Nat /\ incarnation \in 0..TokenMax
  BY DEF EnvironmentInv, EnvironmentTypeOK
<1>3. metrics.semantic \in Nat /\ metrics.process \in Nat
  BY <1>1 DEF DriverTypeOK, Metrics
<1>4. LastIndex \in Nat \cup {None} /\ LastDecision \in DecisionIds \cup {None}
  BY <1>1 DEF LastIndex, LastDecision, Frames
<1>5. failure.mutation \in BOOLEAN
  BY <1>1 DEF DriverTypeOK, DriverFailures
<1>6. terminal = None /\ interruption = None /\ failed = None
  BY DEF EnvironmentInv, ClosuresMatchState
<1> QED  BY <1>1, <1>2, <1>3, <1>4, <1>5, <1>6

(* A failure closure is one. *)
LEMMA FailureTyped ==
    ASSUME EnvironmentInv, call # "idle", NEW mutation \in BOOLEAN
    PROVE  FailureOf(mutation) \in Failures
BY ConsumeFacts DEF FailureOf, Failures

LEMMA ResetConstructionFailsInv ==
    ASSUME EnvironmentInv, NEW s \in Specs, ResetConstructionFails(s) PROVE EnvironmentInv'
<1> DEFINE closing == [count |-> 0, last |-> None, mutation |-> TRUE]
<1>1. /\ BeginEpisode(s) /\ ConstructThrows /\ CloseFailure(closing) /\ call' = call
  BY DEF ResetConstructionFails
<1>2. closing \in Failures
  <2>1. closing.mutation \in BOOLEAN
    BY Zenon
  <2> QED  BY <2>1 DEF Failures
<1>3. /\ failed' = closing /\ terminal' = None /\ interruption' = None /\ views' = {}
      /\ ReleaseFrame /\ state' = "Failed"
  BY <1>1 DEF CloseFailure
<1>4. DriverSound' /\ lifecycle' = "Absent"
  BY <1>1, AbsentSound DEF EnvironmentInv, EnvironmentTypeOK, ConstructThrows
<1> QED  BY <1>1, <1>2, <1>3, <1>4, BeginEpisodeFacts, EpisodeClosesInv

(* A boundary that is consumed and closes the episode. *)
LEMMA ConsumeClosesInv ==
    ASSUME EnvironmentInv, call # "idle", call' = "idle", Destroy, ReleaseFrame,
           UNCHANGED <<counterVars, historyVars>>,
           NEW ending \in {"GameTerminal", "Interrupted", "Failed"}, state' = ending,
           terminal' \in IF ending = "GameTerminal" THEN Terminals ELSE {None},
           interruption' \in IF ending = "Interrupted" THEN Interruptions ELSE {None},
           failed' \in IF ending = "Failed" THEN Failures ELSE {None},
           views' = IF ending = "GameTerminal" THEN {0, 1} ELSE {}
    PROVE  EnvironmentInv'
<1>1. DriverSound' /\ lifecycle' = "Absent"
  BY AbsentSound, ConsumeFacts DEF Destroy
<1>2. UNCHANGED <<episode, publicDecisionIndex, incarnation, generation, published, transitions>>
  BY DEF counterVars, historyVars
<1> QED  BY <1>1, <1>2, ConsumeFacts, EpisodeClosesInv

LEMMA ConsumeBoundaryInv ==
    ASSUME EnvironmentInv, ConsumeBoundary PROVE EnvironmentInv'
<1>1. CASE FramePublished
  BY <1>1, FramePublishedInv
<1>2. CASE TerminalReached
  <2>1. /\ call # "idle" /\ call' = "idle" /\ Destroy /\ ReleaseFrame
        /\ UNCHANGED <<counterVars, historyVars>>
        /\ state' = "GameTerminal" /\ views' = {0, 1}
        /\ interruption' = None /\ failed' = None
        /\ terminal' = [count |-> metrics.semantic, last |-> LastIndex]
    BY <1>2 DEF TerminalReached, Consume
  <2>2. terminal' \in Terminals
    BY <2>1, ConsumeFacts DEF Terminals
  <2> QED  BY <2>1, <2>2, ConsumeClosesInv
<1>3. CASE InterruptionReached
  <2>1. PICK reason \in Reasons : CloseInterrupted(reason)
    BY <1>3 DEF InterruptionReached, Reasons
  <2>2. /\ call # "idle" /\ call' = "idle" /\ Destroy
        /\ UNCHANGED <<counterVars, historyVars>>
    BY <1>3 DEF InterruptionReached, Consume
  <2>3. /\ ReleaseFrame /\ state' = "Interrupted" /\ views' = {}
        /\ terminal' = None /\ failed' = None
        /\ interruption' = [reason |-> reason, count |-> metrics.semantic, last |-> LastIndex,
                            process |-> metrics.process]
    BY <2>1 DEF CloseInterrupted
  <2>4. interruption' \in Interruptions
    BY <2>2, <2>3, ConsumeFacts DEF Interruptions
  <2> QED  BY <2>2, <2>3, <2>4, ConsumeClosesInv
<1>4. CASE FrameNotPublishable \/ TerminalNotPublishable \/ FailureReached
  <2>1. /\ call # "idle" /\ call' = "idle" /\ Destroy
        /\ UNCHANGED <<counterVars, historyVars>>
    BY <1>4 DEF FrameNotPublishable, TerminalNotPublishable, FailureReached, CloseUnpublishable, Consume
  <2>2. PICK mutation \in BOOLEAN : CloseFailure(FailureOf(mutation))
    <3>1. (call = "step" \/ failure.mutation) \in BOOLEAN
      BY <2>1, ConsumeFacts
    <3>2. CASE FailureReached
      BY <3>1, <3>2 DEF FailureReached
    <3>3. CASE FrameNotPublishable \/ TerminalNotPublishable
      BY <3>3 DEF FrameNotPublishable, TerminalNotPublishable, CloseUnpublishable
    <3> QED  BY <1>4, <3>2, <3>3
  <2>3. /\ ReleaseFrame /\ state' = "Failed" /\ views' = {}
        /\ terminal' = None /\ interruption' = None
        /\ failed' = FailureOf(mutation)
    BY <2>2 DEF CloseFailure
  <2>4. failed' \in Failures
    BY <2>1, <2>3, FailureTyped
  <2> QED  BY <2>1, <2>3, <2>4, ConsumeClosesInv
<1> QED  BY <1>1, <1>2, <1>3, <1>4 DEF ConsumeBoundary

(* Every step of the environment keeps the invariant. *)
LEMMA EnvironmentNextInv ==
    ASSUME EnvironmentInv, [EnvironmentNext]_vars PROVE EnvironmentInv'
<1>1. ASSUME NEW s \in Specs, NEW c \in Controls, ResetAccepted(s, c) PROVE EnvironmentInv'
  BY <1>1, ResetAcceptedInv
<1>2. ASSUME NEW s \in Specs, ResetConstructionFails(s) PROVE EnvironmentInv'
  BY <1>2, ResetConstructionFailsInv
<1>3. ASSUME NEW sel \in SubmittedSelections, StepAccepted(sel) PROVE EnvironmentInv'
  BY <1>3, StepAcceptedInv
<1>4. CASE InterruptAccepted
  BY <1>4, InterruptAcceptedInv
<1>5. CASE DriverAdvances
  BY <1>5, DriverAdvancesInv
<1>6. CASE ConsumeBoundary
  BY <1>6, ConsumeBoundaryInv
<1>7. CASE UNCHANGED vars
  BY <1>7, RejectedInv
<1> QED
  BY <1>1, <1>2, <1>3, <1>4, <1>5, <1>6, <1>7
     DEF EnvironmentNext, ResetRejected, StepRejected, InterruptRejected

----------------------------------------------------------------------------
(***************************************************************************)
(* The theorems.                                                            *)
(***************************************************************************)

(* The invariant holds of every behaviour of the environment. *)
THEOREM EnvironmentInvariant == EnvironmentSpec => []EnvironmentInv
<1>1. EnvironmentInit => EnvironmentInv
  BY InitEnvironmentInv
<1>2. EnvironmentInv /\ [EnvironmentNext]_vars => EnvironmentInv'
  BY EnvironmentNextInv
<1> QED  BY <1>1, <1>2, PTL DEF EnvironmentSpec

(* Every state has the types of the facade's and the driver's members. *)
THEOREM EnvironmentTyped == EnvironmentSpec => []EnvironmentTypeOK
<1>1. EnvironmentInv => EnvironmentTypeOK
  BY DEF EnvironmentInv
<1> QED  BY <1>1, EnvironmentInvariant, PTL

(* A frame is never answered by two accepted actions. *)
THEOREM FramesAnsweredOnce == EnvironmentSpec => []AtMostOneActionPerFrame
<1>1. EnvironmentInv => AtMostOneActionPerFrame
  BY DEF EnvironmentInv
<1> QED  BY <1>1, EnvironmentInvariant, PTL

(* Between calls the one closure that belongs to the public state is set. *)
THEOREM OneClosureHolds == EnvironmentSpec => []OneClosure
<1>1. EnvironmentInv => OneClosure
  BY DEF EnvironmentInv, ClosuresMatchState, OneClosure
<1> QED  BY <1>1, EnvironmentInvariant, PTL

(* A selection from any frame but the current one is rejected. *)
THEOREM StaleRejected == EnvironmentSpec => []StaleSelectionsRejected
<1>1. EnvironmentInv => StaleSelectionsRejected
  <2> SUFFICES ASSUME EnvironmentInv, call = "idle",
                      NEW f \in published, f # frame, NEW key \in f.keys
               PROVE  LET verdict == StepVerdict([contract |-> TRUE, episode |-> f.episode,
                                                  token |-> f.token, decision |-> f.decision,
                                                  key |-> key])
                      IN /\ verdict # "Accepted"
                         /\ (Live /\ f.decision = frame.decision) => verdict = "StaleSubmissionToken"
    BY DEF StaleSelectionsRejected
  <2>1. Live => f.token # frame.token
    BY DEF Live, EnvironmentInv, GenerationsGrow, FramesIdentified
  <2>2. Live /\ f.decision = frame.decision => f.episode = frame.episode
    BY DEF Live, EnvironmentInv, GenerationsGrow, FramesIdentified
  <2> QED  BY <2>1, <2>2 DEF StepVerdict
<1> QED  BY <1>1, EnvironmentInvariant, PTL

(* A new frame never carries a token that was issued before. *)
THEOREM TokensIssuedOnce == EnvironmentSpec => TokensNeverReissued
<1> DEFINE Fresh == frame' \notin {frame, None} => \A f \in published : f.token # frame'.token
<1>1. EnvironmentInv /\ [EnvironmentNext]_vars => [Fresh]_vars
  <2> SUFFICES ASSUME EnvironmentInv, EnvironmentNext, frame' \notin {frame, None},
                      NEW f \in published
               PROVE  f.token # frame'.token
    OBVIOUS
  <2>1. FramePublished
    BY DEF EnvironmentNext, ResetRejected, ResetAccepted, ResetConstructionFails, StepRejected,
       StepAccepted, InterruptRejected, InterruptAccepted, DriverAdvances, ConsumeBoundary,
       FrameNotPublishable, TerminalReached, TerminalNotPublishable, InterruptionReached,
       FailureReached, CloseUnpublishable, CloseInterrupted, CloseFailure, ReleaseFrame,
       environmentVars, frameVars, vars
  <2>2. frame'.token.generation = generation + 1
    BY <2>1, NewFrame DEF FramePublished, Consume
  <2>3. generation \in Nat /\ f \in Frames
    BY EnvironmentAssumption DEF EnvironmentAssumption, EnvironmentInv, EnvironmentTypeOK
  <2>4. f.token.generation \in Nat /\ f.token.generation <= generation
    BY <2>3 DEF EnvironmentInv, GenerationsGrow, Frames, Tokens
  <2> QED  BY <2>2, <2>3, <2>4
<1> QED  BY <1>1, EnvironmentInvariant, PTL DEF EnvironmentSpec, TokensNeverReissued

(* Between calls the facade offers exactly what its driver would accept. *)
THEOREM FacadeAgreesWithDriver == EnvironmentSpec => []FacadeMatchesDriver
<1>1. EnvironmentInv => FacadeMatchesDriver
  <2> SUFFICES ASSUME EnvironmentInv, call = "idle"
               PROVE  FacadeMatchesDriver
    BY DEF FacadeMatchesDriver
  <2>1. lifecycle = "AwaitingDecision" => host = TRUE
    BY DEF EnvironmentInv, DriverSound, DriverInv, DriverTypeOK, EngineMatchesCall, Ongoing
  <2>2. lifecycle = "Absent" => host = FALSE
    BY DEF EnvironmentInv, DriverSound, DriverTypeOK
  <2>3. /\ (state = "AwaitingAction") = (frame # None)
        /\ (state = "AwaitingAction") = (lifecycle = "AwaitingDecision")
        /\ state # "AwaitingAction" => lifecycle = "Absent"
    BY DEF EnvironmentInv, CallMatchesDriver
  <2>4. (state = "AwaitingAction") = host
    BY <2>1, <2>2, <2>3
  <2>5. ASSUME state = "AwaitingAction"
        PROVE  /\ frame.keys = {PublicKey(k) : k \in Candidates(request)}
               /\ \A key \in frame.keys : Cardinality(Resolved(key)) = 1
               /\ \A b \in bindings : b.semantic \in Candidates(request)
    <3>1. /\ frame.keys = {PublicKey(k) : k \in Candidates(request)}
          /\ bindings = BindingsFor(request)
      BY <2>3, <2>5 DEF EnvironmentInv, FrameMatchesRequest
    <3>2. ASSUME NEW key \in frame.keys PROVE Cardinality(Resolved(key)) = 1
      <4>1. PICK k \in Candidates(request) : key = PublicKey(k)
        BY <3>1
      <4>2. Resolved(key) = {[public |-> PublicKey(k), semantic |-> k]}
        BY <3>1, <4>1 DEF Resolved, BindingsFor, PublicKey
      <4> QED  BY <4>2, FS_Singleton
    <3>3. \A b \in bindings : b.semantic \in Candidates(request)
      BY <3>1 DEF BindingsFor
    <3> QED  BY <3>1, <3>2, <3>3
  <2> QED  BY <2>3, <2>4, <2>5 DEF FacadeMatchesDriver
<1> QED  BY <1>1, EnvironmentInvariant, PTL

(* The environment implements the contract: every step of facade or driver  *)
(* is a step of EpisodeContract or invisible to the caller.                 *)
THEOREM EnvironmentKeepsContract == EnvironmentSpec => ImplementsContract
<1>1. EnvironmentInit => Contract!Init
  BY DEF EnvironmentInit, Contract!Init, PhaseSeen, OfferSeen, OfferedSeen, AnsweredSeen
<1>2. EnvironmentInv /\ EnvironmentInv' /\ [EnvironmentNext]_vars
          => [Contract!Next]_(Contract!contractVars)
  <2> SUFFICES ASSUME EnvironmentInv, EnvironmentInv', [EnvironmentNext]_vars
               PROVE  [Contract!Next]_(Contract!contractVars)
    OBVIOUS
  <2> USE DEF Contract!Next, Contract!contractVars
  <2>1. CASE UNCHANGED vars
    BY <2>1 DEF PhaseSeen, OfferSeen, OfferedSeen, AnsweredSeen, vars, environmentVars, counterVars,
       frameVars, historyVars
  <2>2. ASSUME NEW s \in Specs, NEW c \in Controls, ResetAccepted(s, c) PROVE Contract!Next
    <3>1. /\ call = "idle" /\ state \in {"Empty", "GameTerminal", "Interrupted", "Failed"}
          /\ UNCHANGED <<published, transitions>> /\ call' = "reset"
      BY <2>2, BeginEpisodeFacts DEF ResetAccepted
    <3>2. frame = None
      BY <3>1 DEF EnvironmentInv, CallMatchesDriver
    <3> QED
      BY <3>1, <3>2 DEF Contract!Begin, PhaseSeen, OfferSeen, OfferedSeen, AnsweredSeen
  <2>3. ASSUME NEW s \in Specs, ResetConstructionFails(s) PROVE Contract!Next
    <3>1. /\ call = "idle" /\ state \in {"Empty", "GameTerminal", "Interrupted", "Failed"}
          /\ UNCHANGED <<published, transitions>> /\ call' = "idle"
          /\ state' = "Failed" /\ frame' = None
      BY <2>3, BeginEpisodeFacts DEF ResetConstructionFails, CloseFailure, ReleaseFrame
    <3>2. frame = None
      BY <3>1 DEF EnvironmentInv, CallMatchesDriver
    <3>3. Contract!End("Failed")
      BY <3>1, <3>2 DEF Contract!End, PhaseSeen, OfferSeen, OfferedSeen, AnsweredSeen
    <3> QED  BY <3>3
  <2>4. ASSUME NEW sel \in SubmittedSelections, StepAccepted(sel) PROVE Contract!Next
    <3>1. /\ call = "idle" /\ call' = "step" /\ frame # None /\ state = "AwaitingAction"
          /\ published' = published
      BY <2>4 DEF StepAccepted, StepVerdict, Live
    <3>2. PICK e : e.token = frame.token /\ transitions' = Append(transitions, e)
      BY <2>4 DEF StepAccepted
    <3>3. transitions \in Seq(Transitions) /\ transitions' \in Seq(Transitions)
      BY DEF EnvironmentInv, EnvironmentTypeOK
    <3>4. AnsweredSeen' = Append(AnsweredSeen, frame.token)
      BY <3>2, <3>3 DEF AnsweredSeen
    <3> QED
      BY <3>1, <3>4 DEF Contract!Answer, PhaseSeen, OfferSeen, OfferedSeen
  <2>5. CASE InterruptAccepted
    <3>1. /\ call = "idle" /\ call' = "interrupt" /\ frame # None /\ state = "AwaitingAction"
          /\ UNCHANGED <<published, transitions>>
      BY <2>5 DEF InterruptAccepted, InterruptVerdict, Live, historyVars
    <3> QED
      BY <3>1 DEF Contract!Withdraw, PhaseSeen, OfferSeen, OfferedSeen, AnsweredSeen
  <2>6. CASE DriverAdvances
    BY <2>6 DEF DriverAdvances, PhaseSeen, OfferSeen, OfferedSeen, AnsweredSeen, environmentVars,
       frameVars, historyVars
  <2>7. CASE FramePublished
    <3> DEFINE t == [incarnation |-> incarnation, generation |-> generation + 1]
    <3>1. /\ call # "idle" /\ call' = "idle" /\ state' = "AwaitingAction"
          /\ transitions' = transitions
          /\ published' = published \cup {frame'}
          /\ frame'.token = t /\ generation + 1 \in 0..TokenMax
      BY <2>7, NewFrame DEF FramePublished, Consume
    <3>2. frame' # None /\ t \in [incarnation : 0..TokenMax, generation : 0..TokenMax]
      BY <3>1 DEF EnvironmentInv, CallMatchesDriver, EnvironmentTypeOK
    <3>3. ASSUME NEW f \in published PROVE f.token # t
      <4>1. generation \in Nat /\ f \in Frames
        BY EnvironmentAssumption DEF EnvironmentAssumption, EnvironmentInv, EnvironmentTypeOK
      <4>2. f.token.generation \in Nat /\ f.token.generation <= generation
        BY <4>1 DEF EnvironmentInv, GenerationsGrow, Frames, Tokens
      <4> QED  BY <4>1, <4>2
    <3>4. Contract!MakeOffer(t)
      BY <3>1, <3>2, <3>3 DEF Contract!MakeOffer, PhaseSeen, OfferSeen, OfferedSeen, AnsweredSeen
    <3> QED  BY <3>2, <3>4
  <2>8. ASSUME NEW ending \in {"GameTerminal", "Interrupted", "Failed"}, call # "idle", call' = "idle",
               state' = ending, frame' = None, UNCHANGED <<published, transitions>>
        PROVE  Contract!Next
    <3>1. Contract!End(ending)
      BY <2>8 DEF Contract!End, PhaseSeen, OfferSeen, OfferedSeen, AnsweredSeen
    <3> QED  BY <3>1
  <2>9. CASE ConsumeBoundary /\ ~FramePublished
    <3>1. /\ call # "idle" /\ call' = "idle" /\ frame' = None
          /\ UNCHANGED <<published, transitions>>
          /\ state' \in {"GameTerminal", "Interrupted", "Failed"}
      BY <2>9 DEF ConsumeBoundary, FrameNotPublishable, TerminalReached, TerminalNotPublishable,
         InterruptionReached, FailureReached, CloseUnpublishable, CloseInterrupted, CloseFailure,
         ReleaseFrame, Consume, historyVars
    <3> QED  BY <2>8, <3>1
  <2> QED
    BY <2>1, <2>2, <2>3, <2>4, <2>5, <2>6, <2>7, <2>9
       DEF EnvironmentNext, ResetRejected, StepRejected, InterruptRejected
<1>3. EnvironmentSpec => Contract!Init /\ [][Contract!Next]_(Contract!contractVars)
  BY <1>1, <1>2, EnvironmentInvariant, PTL DEF EnvironmentSpec
<1> QED  BY <1>3 DEF ImplementsContract, Contract!Safety

----------------------------------------------------------------------------
(***************************************************************************)
(* Accounting: what a closure and the engine know of the accepted actions.  *)
(***************************************************************************)

Actions == Cardinality(EpisodeTransitions)
SubmittedTransitions == {i \in EpisodeTransitions : transitions[i].submitted}
Responses == Cardinality(SubmittedTransitions)

(* The current frame belongs to the current episode, no action to a later. *)
IncarnationsBounded ==
    /\ \A i \in DOMAIN transitions : transitions[i].token.incarnation <= incarnation
    /\ frame # None => frame.token.incarnation = incarnation

(* Frames are numbered by the actions before them, and the driver has       *)
(* counted every action but one that failed before it was counted.          *)
ActionsCounted ==
    /\ call = "reset" => Actions = 0
    /\ frame # None => Actions = IF call = "step" THEN frame.index + 1 ELSE frame.index
    /\ metrics.semantic = Actions
       \/ (lifecycle \in {"Failed", "Absent"} /\ metrics.semantic + 1 = Actions)
    /\ lifecycle = "Interrupted" => call = "interrupt"

(* The engine has one response more than was reported only while a step     *)
(* fails, and after it.                                                     *)
ResponsesCounted ==
    \/ responded = Responses
    \/ /\ responded = Responses + 1
       /\ IF call = "idle" THEN failed # None /\ failed.mutation
          ELSE call = "step" /\ lifecycle = "Failed"

AccountInv ==
    /\ IncarnationsBounded
    /\ ActionsCounted
    /\ ResponsesCounted
    /\ ClosureCountsActions

(* The driver's loop moves no count of actions or responses. *)
LEMMA AdvanceAccountStep ==
    ASSUME DriverTypeOK, AdvanceStep
    PROVE  /\ metrics'.semantic = metrics.semantic
           /\ responded' = responded
           /\ lifecycle = "Advancing" /\ lifecycle' # "Interrupted"
<1>1. metrics \in Metrics
  BY DEF DriverTypeOK
<1> USE DEF ReceiveMessage, CallProcess, CloseWithFailure, CloseAt, Refreshed, Metrics
<1>2. CASE ProcessThrows \/ MessageRefused \/ ProcessBudgetSpent \/ ProcessIndexOverflow
  BY <1>1, <1>2 DEF ProcessThrows, MessageRefused, ProcessBudgetSpent, ProcessIndexOverflow
<1>3. CASE MessageWithoutDecision
  BY <1>3 DEF MessageWithoutDecision
<1>4. CASE MessageTerminal \/ MessageTerminalFails
  BY <1>1, <1>4 DEF MessageTerminal, MessageTerminalFails, TakeTerminalIndex
<1>5. CASE DecisionOverBudget \/ DecisionUnpublishable \/ \E r \in Requests : DecisionPublished(r)
  BY <1>1, <1>5 DEF DecisionOverBudget, DecisionUnpublishable, DecisionPublished, MessageDecision,
     CountInteractive
<1> QED  BY <1>2, <1>3, <1>4, <1>5 DEF AdvanceStep

(* An accepted action is counted unless it failed, and reaches the engine   *)
(* unreported only if submit_response failed.                               *)
LEMMA ApplyAccount ==
    ASSUME DriverTypeOK, NEW k \in Keys, ApplyStep(k)
    PROVE  /\ lifecycle' \notin {"Absent", "Interrupted"}
           /\ \/ metrics'.semantic = metrics.semantic + 1
              \/ metrics'.semantic = metrics.semantic /\ lifecycle' = "Failed"
           /\ \/ accepted' = "submitted" /\ responded' = responded + 1
              \/ accepted' = "unsubmitted" /\ responded' = responded
              \/ /\ accepted' = "unsubmitted" /\ responded' = responded + 1
                 /\ lifecycle' = "Failed"
<1>1. metrics \in Metrics
  BY DEF DriverTypeOK
<1> USE DEF CloseWithFailure, Refreshed, Metrics, Counted, CountedPick
<1>2. CASE ApplyFailsUncounted(k)
  BY <1>1, <1>2 DEF ApplyFailsUncounted
<1>3. CASE (\E r \in Requests : PickPublished(k, r)) \/ PickUnpublishable(k) \/ PickOverBudget(k)
  BY <1>1, <1>3 DEF PickPublished, PickUnpublishable, PickOverBudget, ApplyPick
<1>4. CASE ResponseSubmitted(k) \/ ResponseInconsistent(k)
  BY <1>1, <1>4 DEF ResponseSubmitted, ResponseInconsistent, ApplyFinal
<1> QED  BY <1>2, <1>3, <1>4 DEF ApplyStep

(* The actions of an episode are finitely many. *)
LEMMA ActionsFinite ==
    ASSUME EnvironmentTypeOK
    PROVE  /\ IsFiniteSet(EpisodeTransitions) /\ IsFiniteSet(SubmittedTransitions)
           /\ Actions \in Nat /\ Responses \in Nat
           /\ Actions = 0 => Responses = 0
<1>1. transitions \in Seq(Transitions)
  BY DEF EnvironmentTypeOK
<1>2. DOMAIN transitions = 1..Len(transitions) /\ Len(transitions) \in Nat
  BY <1>1
<1>3. IsFiniteSet(1..Len(transitions))
  BY <1>2, FS_Interval
<1>4. EpisodeTransitions \in SUBSET (1..Len(transitions))
  BY <1>2 DEF EpisodeTransitions
<1>5. IsFiniteSet(EpisodeTransitions)
  BY <1>3, <1>4, FS_Subset
<1>6. SubmittedTransitions \in SUBSET EpisodeTransitions
  BY DEF SubmittedTransitions
<1>7. IsFiniteSet(SubmittedTransitions) /\ Responses <= Actions
  BY <1>5, <1>6, FS_Subset DEF Actions, Responses
<1>8. Actions \in Nat /\ Responses \in Nat
  BY <1>5, <1>7, FS_CardinalityType DEF Actions, Responses
<1> QED  BY <1>5, <1>7, <1>8

(* A new episode has none: every action so far has an earlier incarnation. *)
LEMMA NewEpisodeCounts ==
    ASSUME EnvironmentTypeOK, IncarnationsBounded, incarnation' = incarnation + 1,
           transitions' = transitions
    PROVE  /\ Actions' = 0 /\ Responses' = 0
           /\ \A i \in DOMAIN transitions' : transitions'[i].token.incarnation <= incarnation'
<1>1. incarnation \in Nat
  BY EnvironmentAssumption DEF EnvironmentAssumption, EnvironmentTypeOK
<1>2. \A i \in DOMAIN transitions : transitions[i] \in Transitions
  BY DEF EnvironmentTypeOK
<1>3. \A i \in DOMAIN transitions : transitions[i].token.incarnation \in Nat
  BY <1>2 DEF Transitions, Tokens
<1>4. EpisodeTransitions' = {} /\ SubmittedTransitions' = {}
  BY <1>1, <1>3 DEF IncarnationsBounded, EpisodeTransitions, SubmittedTransitions
<1>5. Actions' = 0 /\ Responses' = 0
  BY <1>4, FS_EmptySet DEF Actions, Responses
<1> QED  BY <1>1, <1>3, <1>5 DEF IncarnationsBounded

(* Where no action is accepted and no episode begins, the counts stay. *)
LEMMA CountsUnchanged ==
    ASSUME UNCHANGED <<incarnation, transitions>>
    PROVE  Actions' = Actions /\ Responses' = Responses
BY DEF Actions, Responses, EpisodeTransitions, SubmittedTransitions

----------------------------------------------------------------------------
(* Accounting: the steps. *)

LEMMA InitAccount == EnvironmentInit => AccountInv
<1> SUFFICES ASSUME EnvironmentInit PROVE AccountInv
  OBVIOUS
<1>1. transitions = <<>> /\ DOMAIN transitions = {}
  BY DEF EnvironmentInit
<1>2. EpisodeTransitions = {} /\ SubmittedTransitions = {}
  BY <1>1 DEF EpisodeTransitions, SubmittedTransitions
<1>3. Actions = 0 /\ Responses = 0
  BY <1>2, FS_EmptySet DEF Actions, Responses
<1>4. IncarnationsBounded
  BY <1>1 DEF EnvironmentInit, IncarnationsBounded
<1>5. ActionsCounted /\ ResponsesCounted
  BY <1>3 DEF EnvironmentInit, ActionsCounted, ResponsesCounted, NoMetrics
<1>6. ClosureCountsActions
  BY DEF EnvironmentInit, ClosureCountsActions
<1> QED  BY <1>4, <1>5, <1>6 DEF AccountInv

(* A reset that is accepted starts from nothing. *)
LEMMA ResetAccount ==
    ASSUME EnvironmentInv, AccountInv, NEW s \in Specs, BeginEpisode(s), NothingHappenedYet,
           frame' = None, lifecycle' # "Interrupted", terminal' = None, interruption' = None,
           failed' # None => failed'.count = 0
    PROVE  AccountInv'
<1>1. incarnation' = incarnation + 1 /\ transitions' = transitions
  BY DEF BeginEpisode, historyVars
<1>2. EnvironmentTypeOK /\ IncarnationsBounded
  BY DEF EnvironmentInv, AccountInv
<1>3. /\ Actions' = 0 /\ Responses' = 0
      /\ \A i \in DOMAIN transitions' : transitions'[i].token.incarnation <= incarnation'
  BY <1>1, <1>2, NewEpisodeCounts
<1>4. metrics'.semantic = 0 /\ responded' = 0
  BY DEF NothingHappenedYet, NoMetrics
<1>5. IncarnationsBounded'
  BY <1>3 DEF IncarnationsBounded
<1>6. ActionsCounted' /\ ResponsesCounted'
  BY <1>3, <1>4 DEF ActionsCounted, ResponsesCounted
<1>7. ClosureCountsActions'
  BY <1>3 DEF ClosureCountsActions, Actions
<1> QED  BY <1>5, <1>6, <1>7 DEF AccountInv

(* An accepted action is one action more of the current episode. *)
LEMMA StepAccount ==
    ASSUME EnvironmentInv, AccountInv, NEW sel \in SubmittedSelections, StepAccepted(sel)
    PROVE  AccountInv'
<1> DEFINE entry == [token |-> frame.token, index |-> frame.index,
                     submitted |-> accepted' = "submitted"]
           new == Len(transitions) + 1
<1>1. /\ call = "idle" /\ call' = "step" /\ frame # None
      /\ transitions' = Append(transitions, entry)
      /\ UNCHANGED <<state, counterVars, frameVars, closureVars, published>>
  BY DEF StepAccepted, StepVerdict, Live
<1>2. PICK b \in Resolved(sel.key) : ApplyStep(b.semantic)
  BY DEF StepAccepted
<1>3. b.semantic \in Keys
  BY <1>2 DEF Resolved, EnvironmentInv, EnvironmentTypeOK
<1>4. DriverTypeOK /\ transitions \in Seq(Transitions) /\ responded \in Nat
      /\ metrics.semantic \in Nat /\ lifecycle = "AwaitingDecision"
  <2>1. DriverTypeOK /\ transitions \in Seq(Transitions)
    BY DEF EnvironmentInv, EnvironmentTypeOK
  <2> QED
    BY <1>1, <2>1 DEF DriverTypeOK, Metrics, EnvironmentInv, CallMatchesDriver
<1>5. /\ lifecycle' \notin {"Absent", "Interrupted"}
      /\ \/ metrics'.semantic = metrics.semantic + 1
         \/ metrics'.semantic = metrics.semantic /\ lifecycle' = "Failed"
      /\ \/ accepted' = "submitted" /\ responded' = responded + 1
         \/ accepted' = "unsubmitted" /\ responded' = responded
         \/ /\ accepted' = "unsubmitted" /\ responded' = responded + 1
            /\ lifecycle' = "Failed"
  BY <1>2, <1>3, <1>4, ApplyAccount
<1>6. /\ DOMAIN transitions = 1..Len(transitions) /\ Len(transitions) \in Nat
      /\ DOMAIN transitions' = DOMAIN transitions \cup {new} /\ new \notin DOMAIN transitions
      /\ \A i \in DOMAIN transitions : transitions'[i] = transitions[i]
      /\ transitions'[new] = entry
  BY <1>1, <1>4
<1>7. /\ incarnation' = incarnation /\ frame' = frame
      /\ frame.token.incarnation = incarnation /\ incarnation \in Nat
  BY <1>1, EnvironmentAssumption DEF EnvironmentAssumption, counterVars, frameVars, AccountInv,
     IncarnationsBounded, EnvironmentInv, EnvironmentTypeOK
<1>8. EpisodeTransitions' = EpisodeTransitions \cup {new} /\ new \notin EpisodeTransitions
  BY <1>6, <1>7 DEF EpisodeTransitions
<1>9. IsFiniteSet(EpisodeTransitions) /\ IsFiniteSet(SubmittedTransitions)
      /\ Actions \in Nat /\ Responses \in Nat
  BY ActionsFinite DEF EnvironmentInv
<1>10. Actions' = Actions + 1
  BY <1>8, <1>9, FS_AddElement DEF Actions
<1>11. Responses' = IF accepted' = "submitted" THEN Responses + 1 ELSE Responses
  <2>1. CASE accepted' = "submitted"
    <3>1. entry.submitted
      BY <2>1
    <3>2. /\ SubmittedTransitions' = SubmittedTransitions \cup {new}
          /\ new \notin SubmittedTransitions
      BY <1>6, <1>8, <3>1 DEF SubmittedTransitions, EpisodeTransitions
    <3> QED  BY <1>9, <2>1, <3>2, FS_AddElement DEF Responses
  <2>2. CASE accepted' # "submitted"
    <3>1. ~entry.submitted
      BY <2>2
    <3>2. SubmittedTransitions' = SubmittedTransitions
      BY <1>6, <1>8, <3>1 DEF SubmittedTransitions, EpisodeTransitions
    <3> QED  BY <2>2, <3>2 DEF Responses
  <2> QED  BY <2>1, <2>2
<1>12. metrics.semantic = Actions /\ Actions = frame.index
  BY <1>1, <1>4, <1>9 DEF AccountInv, ActionsCounted
<1>13. responded = Responses
  BY <1>1 DEF AccountInv, ResponsesCounted, EnvironmentInv, ClosuresMatchState, StepAccepted,
     StepVerdict, Live
<1>14. IncarnationsBounded'
  BY <1>6, <1>7 DEF AccountInv, IncarnationsBounded
<1>15. ActionsCounted'
  BY <1>1, <1>5, <1>7, <1>9, <1>10, <1>12 DEF ActionsCounted
<1>16. ResponsesCounted'
  BY <1>1, <1>5, <1>9, <1>11, <1>13 DEF ResponsesCounted
<1>17. ClosureCountsActions'
  BY <1>1 DEF ClosureCountsActions
<1> QED  BY <1>14, <1>15, <1>16, <1>17 DEF AccountInv

(* An interrupt counts nothing. *)
LEMMA InterruptAccount ==
    ASSUME EnvironmentInv, AccountInv, InterruptAccepted PROVE AccountInv'
<1>1. /\ call = "idle" /\ call' = "interrupt" /\ frame # None /\ state = "AwaitingAction"
      /\ UNCHANGED <<state, counterVars, frameVars, closureVars, historyVars>>
  BY DEF InterruptAccepted, InterruptVerdict, Live
<1>2. Actions' = Actions /\ Responses' = Responses
  BY <1>1, CountsUnchanged DEF counterVars, historyVars
<1>3. lifecycle = "AwaitingDecision" /\ metrics \in Metrics
  BY DEF InterruptAccepted, AdministrativeInterrupt, EnvironmentInv, EnvironmentTypeOK, DriverTypeOK
<1>4. metrics'.semantic = metrics.semantic /\ responded' = responded
  BY <1>3 DEF InterruptAccepted, AdministrativeInterrupt, Refreshed, Metrics
<1>5. failed = None
  BY <1>1 DEF EnvironmentInv, ClosuresMatchState
<1>6. IncarnationsBounded'
  BY <1>1 DEF AccountInv, IncarnationsBounded, counterVars, frameVars, historyVars
<1>7. ActionsCounted'
  BY <1>1, <1>2, <1>3, <1>4 DEF AccountInv, ActionsCounted, counterVars, frameVars
<1>8. ResponsesCounted'
  BY <1>1, <1>2, <1>4, <1>5 DEF AccountInv, ResponsesCounted
<1>9. ClosureCountsActions'
  BY <1>1 DEF ClosureCountsActions
<1> QED  BY <1>6, <1>7, <1>8, <1>9 DEF AccountInv

LEMMA AdvanceAccount ==
    ASSUME EnvironmentInv, AccountInv, DriverAdvances PROVE AccountInv'
<1>1. call # "idle" /\ AdvanceStep /\ UNCHANGED environmentVars
  BY DEF DriverAdvances
<1>2. /\ metrics'.semantic = metrics.semantic /\ responded' = responded
      /\ lifecycle = "Advancing" /\ lifecycle' # "Interrupted"
  BY <1>1, AdvanceAccountStep DEF EnvironmentInv, DriverSound
<1>3. Actions' = Actions /\ Responses' = Responses
  BY <1>1, CountsUnchanged DEF environmentVars, counterVars, historyVars
<1> USE <1>1 DEF environmentVars, counterVars, frameVars, historyVars
<1>4. IncarnationsBounded'
  BY DEF AccountInv, IncarnationsBounded
<1>5. ActionsCounted' /\ ResponsesCounted'
  BY <1>2, <1>3 DEF AccountInv, ActionsCounted, ResponsesCounted
<1>6. ClosureCountsActions'
  BY DEF ClosureCountsActions
<1> QED  BY <1>4, <1>5, <1>6 DEF AccountInv

LEMMA FrameAccount ==
    ASSUME EnvironmentInv, AccountInv, FramePublished PROVE AccountInv'
<1>1. /\ call # "idle" /\ call' = "idle" /\ lifecycle = "AwaitingDecision" /\ GenerationLeft
      /\ frame' = FrameFor(request, NextIndex)
      /\ terminal' = None /\ interruption' = None /\ failed' = None
      /\ UNCHANGED <<driverVars, incarnation, transitions>>
  BY DEF FramePublished, Consume
<1>2. Actions' = Actions /\ Responses' = Responses
  BY <1>1, CountsUnchanged
<1>3. /\ frame'.token.incarnation = incarnation
      /\ frame'.index = NextIndex
  BY <1>1 DEF FrameFor
<1>4. NextIndex = Actions
  BY <1>1 DEF NextIndex, EnvironmentInv, EnvironmentTypeOK, CallMatchesDriver, AccountInv, ActionsCounted
<1>5. IncarnationsBounded'
  BY <1>1, <1>3 DEF AccountInv, IncarnationsBounded
<1>6. ActionsCounted'
  BY <1>1, <1>2, <1>3, <1>4 DEF AccountInv, ActionsCounted, driverVars
<1>7. ResponsesCounted'
  BY <1>1, <1>2 DEF AccountInv, ResponsesCounted, driverVars
<1>8. ClosureCountsActions'
  BY <1>1 DEF ClosureCountsActions
<1> QED  BY <1>5, <1>6, <1>7, <1>8 DEF AccountInv

(* A boundary that closes the episode: what the closure says is what the    *)
(* driver counted and what the last frame was.                              *)
LEMMA ClosingAccount ==
    ASSUME EnvironmentInv, AccountInv, call # "idle", call' = "idle", Destroy, ReleaseFrame,
           UNCHANGED <<counterVars, historyVars>>,
           lifecycle = "Failed" => failed' # None /\ (call = "step" => failed'.mutation),
           terminal' # None => /\ lifecycle = "Terminal"
                               /\ terminal'.count = metrics.semantic
                               /\ terminal'.last = LastIndex,
           interruption' # None => /\ lifecycle \in ClosedLifecycles \ {"Failed"}
                                   /\ interruption'.count = metrics.semantic
                                   /\ interruption'.last = LastIndex
                                   /\ interruption'.process = metrics.process
                                   /\ interruption'.reason = "ADMINISTRATIVE_CANCEL"
                                          => lifecycle = "Interrupted",
           failed' # None => failed'.count = metrics.semantic
    PROVE  AccountInv'
<1>1. Actions' = Actions /\ Responses' = Responses
  BY CountsUnchanged DEF counterVars, historyVars
<1>2. /\ frame' = None /\ lifecycle' = "Absent"
      /\ UNCHANGED <<metrics, processed, responded, incarnation, transitions>>
  BY DEF ReleaseFrame, Destroy, counterVars, historyVars
<1>3. /\ Actions \in Nat /\ metrics.semantic \in Nat
      /\ frame \in Frames \cup {None}
  BY ActionsFinite, ConsumeFacts DEF EnvironmentInv, EnvironmentTypeOK
<1>4. lifecycle # "Absent" /\ call \in {"reset", "step", "interrupt"}
  BY DEF EnvironmentInv, CallMatchesDriver, EnvironmentTypeOK
<1>5. lifecycle # "Failed" => metrics.semantic = Actions
  BY <1>4 DEF AccountInv, ActionsCounted
<1>6. metrics.semantic = Actions \/ metrics.semantic + 1 = Actions
  BY DEF AccountInv, ActionsCounted
<1>7. lifecycle \in ClosedLifecycles => metrics.process = processed
  BY <1>4 DEF EnvironmentInv, DriverSound, DriverInv, MetricsExactAtBoundary
<1>8. /\ call = "reset" => frame = None /\ Actions = 0
      /\ call = "step" => frame \in Frames /\ Actions = frame.index + 1
      /\ call = "interrupt" => frame \in Frames /\ Actions = frame.index
      /\ lifecycle = "Interrupted" <=> call = "interrupt"
  BY <1>3 DEF EnvironmentInv, CallMatchesDriver, AccountInv, ActionsCounted
<1>9. frame \in Frames => frame.index \in Nat /\ frame # None
  BY AbsenceAssumption DEF Frames
<1>10. IncarnationsBounded'
  BY <1>2 DEF AccountInv, IncarnationsBounded
<1>11. ActionsCounted'
  BY <1>1, <1>2, <1>6 DEF ActionsCounted
<1>12. ResponsesCounted'
  BY <1>1, <1>2 DEF AccountInv, ResponsesCounted
<1>13. ASSUME terminal' # None
       PROVE  /\ terminal'.count = Actions'
              /\ terminal'.last = IF Actions' = 0 THEN None ELSE Actions' - 1
  BY <1>1, <1>3, <1>4, <1>5, <1>8, <1>9, <1>13 DEF LastIndex
<1>14. ASSUME interruption' # None
       PROVE  /\ interruption'.count = Actions'
              /\ interruption'.process = processed'
              /\ interruption'.reason = "ADMINISTRATIVE_CANCEL" => interruption'.last = Actions'
  BY <1>1, <1>2, <1>5, <1>7, <1>8, <1>9, <1>14 DEF LastIndex
<1>15. ASSUME failed' # None PROVE failed'.count \in {Actions' - 1, Actions'}
  BY <1>1, <1>3, <1>6, <1>15
<1>16. ClosureCountsActions'
  BY <1>13, <1>14, <1>15 DEF ClosureCountsActions, Actions
<1> QED  BY <1>10, <1>11, <1>12, <1>16 DEF AccountInv

LEMMA BoundaryAccount ==
    ASSUME EnvironmentInv, AccountInv, ConsumeBoundary PROVE AccountInv'
<1>0. call # "idle" => lifecycle # "Absent"
  BY DEF EnvironmentInv, CallMatchesDriver
<1>1. CASE FramePublished
  BY <1>1, FrameAccount
<1>2. CASE TerminalReached
  <2>1. /\ call # "idle" /\ call' = "idle" /\ Destroy /\ ReleaseFrame /\ lifecycle = "Terminal"
        /\ UNCHANGED <<counterVars, historyVars>>
        /\ interruption' = None /\ failed' = None
        /\ terminal' = [count |-> metrics.semantic, last |-> LastIndex]
    BY <1>2 DEF TerminalReached, Consume
  <2> QED  BY <2>1, ClosingAccount
<1>3. CASE InterruptionReached
  <2>1. /\ call # "idle" /\ call' = "idle" /\ Destroy
        /\ UNCHANGED <<counterVars, historyVars>>
    BY <1>3 DEF InterruptionReached, Consume
  <2>2. PICK reason \in Reasons :
            /\ CloseInterrupted(reason)
            /\ lifecycle \in ClosedLifecycles \ {"Failed"}
            /\ reason = "ADMINISTRATIVE_CANCEL" => lifecycle = "Interrupted"
    BY <1>3 DEF InterruptionReached, Reasons, Consume, ClosedLifecycles
  <2>3. /\ ReleaseFrame /\ terminal' = None /\ failed' = None
        /\ interruption' = [reason |-> reason, count |-> metrics.semantic, last |-> LastIndex,
                            process |-> metrics.process]
    BY <2>2 DEF CloseInterrupted
  <2>4. lifecycle # "Failed"
    BY <2>2
  <2> QED  BY <2>1, <2>2, <2>3, <2>4, ClosingAccount
<1>4. CASE FrameNotPublishable \/ TerminalNotPublishable \/ FailureReached
  <2>1. /\ call # "idle" /\ call' = "idle" /\ Destroy
        /\ UNCHANGED <<counterVars, historyVars>>
    BY <1>4 DEF FrameNotPublishable, TerminalNotPublishable, FailureReached, CloseUnpublishable, Consume
  <2>2. PICK mutation \in BOOLEAN : CloseFailure(FailureOf(mutation)) /\ (call = "step" => mutation)
    <3>1. (call = "step" \/ failure.mutation) \in BOOLEAN
      BY <2>1, ConsumeFacts
    <3>2. CASE FailureReached
      BY <3>1, <3>2 DEF FailureReached
    <3>3. CASE FrameNotPublishable \/ TerminalNotPublishable
      BY <3>3 DEF FrameNotPublishable, TerminalNotPublishable, CloseUnpublishable
    <3> QED  BY <1>4, <3>2, <3>3
  <2>3. ReleaseFrame /\ terminal' = None /\ interruption' = None /\ failed' = FailureOf(mutation)
    BY <2>2 DEF CloseFailure
  <2>4. failed' # None
    BY <2>1, <2>3, FailureTyped, AbsenceAssumption
  <2>5. failed'.count = metrics.semantic
    BY <1>0, <2>1, <2>3 DEF FailureOf, DriverPresent
  <2>6. call = "step" => failed'.mutation
    BY <2>2, <2>3 DEF FailureOf
  <2> QED  BY <2>1, <2>3, <2>4, <2>5, <2>6, ClosingAccount
<1> QED  BY <1>1, <1>2, <1>3, <1>4 DEF ConsumeBoundary

(* Every step keeps the accounts. *)
LEMMA NextAccount ==
    ASSUME EnvironmentInv, AccountInv, [EnvironmentNext]_vars PROVE AccountInv'
<1>1. ASSUME NEW s \in Specs, NEW c \in Controls, ResetAccepted(s, c) PROVE AccountInv'
  <2>1. /\ BeginEpisode(s) /\ NothingHappenedYet /\ frame' = None /\ lifecycle' # "Interrupted"
        /\ terminal' = None /\ interruption' = None /\ failed' = None
    BY <1>1 DEF ResetAccepted, Construct
  <2> QED  BY <2>1, ResetAccount
<1>2. ASSUME NEW s \in Specs, ResetConstructionFails(s) PROVE AccountInv'
  <2>1. /\ BeginEpisode(s) /\ NothingHappenedYet /\ frame' = None /\ lifecycle' # "Interrupted"
        /\ terminal' = None /\ interruption' = None /\ failed'.count = 0
    BY <1>2 DEF ResetConstructionFails, ConstructThrows, CloseFailure, ReleaseFrame
  <2> QED  BY <2>1, ResetAccount
<1>3. ASSUME NEW sel \in SubmittedSelections, StepAccepted(sel) PROVE AccountInv'
  BY <1>3, StepAccount
<1>4. CASE InterruptAccepted
  BY <1>4, InterruptAccount
<1>5. CASE DriverAdvances
  BY <1>5, AdvanceAccount
<1>6. CASE ConsumeBoundary
  BY <1>6, BoundaryAccount
<1>7. CASE UNCHANGED vars
  <2> USE <1>7 DEF vars, driverVars, environmentVars, counterVars, frameVars, closureVars, historyVars
  <2>1. Actions' = Actions /\ Responses' = Responses
    BY CountsUnchanged
  <2>2. IncarnationsBounded' /\ ActionsCounted' /\ ResponsesCounted'
    BY <2>1 DEF AccountInv, IncarnationsBounded, ActionsCounted, ResponsesCounted
  <2>3. ClosureCountsActions'
    BY <2>1 DEF AccountInv, ClosureCountsActions, Actions
  <2> QED  BY <2>2, <2>3 DEF AccountInv
<1> QED
  BY <1>1, <1>2, <1>3, <1>4, <1>5, <1>6, <1>7
     DEF EnvironmentNext, ResetRejected, StepRejected, InterruptRejected

LEMMA AccountInvariant == EnvironmentSpec => []AccountInv
<1>1. EnvironmentInit => AccountInv
  BY InitAccount
<1>2. EnvironmentInv /\ AccountInv /\ [EnvironmentNext]_vars => AccountInv'
  BY NextAccount
<1> QED  BY <1>1, <1>2, EnvironmentInvariant, PTL DEF EnvironmentSpec

(* Every closure reports the accepted actions of its episode: exactly, but  *)
(* for a failure that may miss the one action that failed.                  *)
THEOREM ClosuresCount == EnvironmentSpec => []ClosureCountsActions
<1>1. AccountInv => ClosureCountsActions
  BY DEF AccountInv
<1> QED  BY <1>1, AccountInvariant, PTL

(* The engine got exactly the responses the transitions reported, plus at   *)
(* most one in an episode that failed and says that the engine may have     *)
(* moved.                                                                   *)
THEOREM ResponsesAreReported == EnvironmentSpec => []ResponsesReported
<1>1. EnvironmentInv /\ AccountInv => ResponsesReported
  <2> SUFFICES ASSUME EnvironmentInv, AccountInv PROVE ResponsesReported
    OBVIOUS
  <2>1. Responses = Cardinality({i \in EpisodeTransitions : transitions[i].submitted})
    BY DEF Responses, SubmittedTransitions
  <2>2. Responses \in Nat
    BY ActionsFinite DEF EnvironmentInv
  <2> QED  BY <2>1, <2>2 DEF AccountInv, ResponsesCounted, ResponsesReported
<1> QED  BY <1>1, AccountInvariant, EnvironmentInvariant, PTL

----------------------------------------------------------------------------
(***************************************************************************)
(* The run.  Above the invariant of the environment, its own says, phase by *)
(* phase, which copies agree, and that the result a call returns is one the *)
(* recorder takes, unless the environment has failed.                       *)
(***************************************************************************)
(* The count a closure reports, where the frame it closes is still held.    *)
CountsFollowFrames ==
    /\ call \in {"idle", "interrupt"} /\ frame # None => metrics.semantic = frame.index
    /\ call = "reset" => metrics.semantic = 0
    /\ call = "step" => \/ metrics.semantic = frame.index + 1
                        \/ metrics.semantic = frame.index /\ lifecycle = "Failed"
    /\ call = "idle" /\ frame # None => frame.decision.content = request

(* What was recorded of the accepted actions, and how it is chained. *)
RecordsSound ==
    /\ Recorded \in {Len(transitions) - 1, Len(transitions)}
    /\ \A i \in 1..Recorded :
        /\ \E f \in published : f.token = transitions[i].token /\ records[i].frame = Snapshot(f)
        /\ (records[i].class = "intermediate") = ~transitions[i].submitted
        /\ records[i].frame.episode = manifest
        /\ records[i].frame.index = i - 1
    /\ \A i \in 1..(Recorded - 1) :
        /\ records[i].successor = "NextFrame"
        /\ records[i].target = Target("record", records[i + 1].frame)

(* The recorder holds the snapshot of the runner's frame, and its last      *)
(* record leads to it.                                                      *)
Awaiting ==
    /\ recorder = "AwaitingAction"
    /\ closure = None
    /\ boundary \in published
    /\ snapshot = Snapshot(boundary)
    /\ FrameFits(boundary, Recorded)
    /\ Recorded > 0 => /\ records[Recorded].successor = "NextFrame"
                       /\ records[Recorded].target = Target("record", snapshot)

AwaitingFrame == Awaiting /\ frame = boundary /\ Recorded = Len(transitions)

(* A step that did not fail is one the recorder takes: its class while the  *)
(* call runs, and its successor when it has returned.                       *)
StepTaken ==
    /\ Awaiting
    /\ Len(transitions) = Recorded + 1
    /\ Last(transitions).token = boundary.token
    /\ Last(transitions).index = boundary.index
    /\ chosen \in boundary.keys
    /\ call = "step" => frame = boundary /\ (lifecycle = "Failed" \/ ClassFits(Last(transitions)))
    /\ call = "idle" => /\ state # "Empty"
                        /\ state = "Failed" \/ (ClassFits(Last(transitions)) /\ SuccessorFits)

Sealed ==
    /\ recorder = "Closed"
    /\ EnvelopeValid
    /\ EvidenceFits
    /\ Recorded = Len(transitions)
    /\ closure.kind = EndOf
    /\ state \in {"GameTerminal", "Interrupted", "Failed"}
    /\ IF rejections = 0 THEN closure.pending = None
                         ELSE closure.kind = "Interrupted" /\ closure.pending = Snapshot(boundary)

Untouched ==
    /\ records = <<>> /\ transitions = <<>> /\ closure = None /\ snapshot = None
    /\ recorder = "Empty" /\ boundary = None /\ evidence = None

PhaseHolds ==
    /\ phase \notin {"resetting", "stepping", "interrupting"} => call = "idle"
    /\ phase = "new" => Untouched /\ state = "Empty"
    /\ phase = "resetting" => /\ Untouched
                              /\ call \in {"reset", "idle"}
                              /\ call = "reset" => episode = manifest
                              /\ call = "idle" => state # "Empty" /\ ResultFits(0, None)
    /\ phase \in {"choosing", "selected", "cancelling"} => AwaitingFrame
    /\ phase = "selected" => chosen \in {PublicKey(k) : k \in Keys}
    /\ phase = "stepping" => call \in {"step", "idle"} /\ StepTaken
    /\ phase = "interrupting" => /\ Awaiting
                                 /\ Recorded = Len(transitions)
                                 /\ call \in {"interrupt", "idle"}
                                 /\ call = "interrupt" => frame = boundary
                                 /\ call = "idle" => InterruptionFits
    /\ phase = "finalizing" => Sealed
    /\ phase # "stepping" /\ Recorded # Len(transitions) => phase = "done" /\ state = "Failed"
    /\ phase \in {"cancelling", "interrupting"} => rejections = 1
    /\ phase \notin {"cancelling", "interrupting", "finalizing", "done"} => rejections = 0
    /\ closure # None => phase \in {"finalizing", "done"}
    /\ closure # None /\ closure.kind = "Failed" => state = "Failed"
    /\ VerdictIsDeserved

(* While an episode runs it is the one the runner asked for. *)
EpisodeIsManifest == phase # "new" /\ frame # None => episode = manifest /\ frame.episode = manifest

RunInv ==
    /\ EnvironmentInv
    /\ RunTypeOK
    /\ CountsFollowFrames
    /\ RecordsSound
    /\ EpisodeIsManifest
    /\ PhaseHolds

----------------------------------------------------------------------------
(* The counts, which the environment keeps by itself. *)

(* The loop of a call counts no semantic action, an accepted one counts it  *)
(* or fails.                                                                *)
LEMMA AdvanceKeepsCount ==
    ASSUME metrics \in Metrics, AdvanceStep PROVE metrics'.semantic = metrics.semantic
<1> USE DEF Refreshed, Metrics
<1>1. metrics' \in {metrics, Refreshed(metrics), Refreshed(CountInteractive)}
  BY DEF AdvanceStep, ProcessThrows, MessageRefused, MessageWithoutDecision, MessageTerminal,
     MessageTerminalFails, DecisionOverBudget, DecisionPublished, DecisionUnpublishable,
     ProcessBudgetSpent, ProcessIndexOverflow, CloseWithFailure, CloseAt
<1>2. CountInteractive \in Metrics /\ CountInteractive.semantic = metrics.semantic
  BY CountedMetrics
<1>3. Refreshed(metrics).semantic = metrics.semantic
  OBVIOUS
<1>4. Refreshed(CountInteractive).semantic = CountInteractive.semantic
  BY <1>2
<1> QED  BY <1>1, <1>2, <1>3, <1>4

LEMMA ApplyCounts ==
    ASSUME metrics \in Metrics, NEW k \in Keys, ApplyStep(k)
    PROVE  \/ metrics'.semantic = metrics.semantic + 1
           \/ metrics'.semantic = metrics.semantic /\ lifecycle' = "Failed"
<1> USE DEF Refreshed, Metrics
<1>1. \/ metrics' \in {Refreshed(Counted), Refreshed(CountedPick)}
      \/ metrics' = Refreshed(metrics) /\ lifecycle' = "Failed"
  BY DEF ApplyStep, ApplyFailsUncounted, PickPublished, PickUnpublishable, PickOverBudget,
     ResponseSubmitted, ResponseInconsistent, CloseWithFailure
<1>2. /\ Counted \in Metrics /\ Counted.semantic = metrics.semantic + 1
      /\ CountedPick \in Metrics /\ CountedPick.semantic = metrics.semantic + 1
  BY CountedMetrics
<1>3. Refreshed(metrics).semantic = metrics.semantic
  OBVIOUS
<1>4. Refreshed(Counted).semantic = Counted.semantic /\ Refreshed(CountedPick).semantic = CountedPick.semantic
  BY <1>2
<1> QED  BY <1>1, <1>2, <1>3, <1>4

LEMMA CountsFollow ==
    ASSUME EnvironmentInv, CountsFollowFrames, [EnvironmentNext]_vars PROVE CountsFollowFrames'
<1> USE DEF CountsFollowFrames
<1>a. metrics \in Metrics /\ frame \in Frames \cup {None} /\ call \in {"idle", "reset", "step", "interrupt"}
  BY DEF EnvironmentInv, EnvironmentTypeOK, DriverTypeOK
<1>b. metrics.semantic \in Nat
  BY <1>a DEF Metrics
<1>c. frame # None => frame.index \in Nat
  BY <1>a DEF Frames
<1>1. ASSUME NEW s \in Specs, NEW c \in Controls, ResetAccepted(s, c) PROVE CountsFollowFrames'
  <2>1. call' = "reset" /\ frame' = None /\ metrics' = NoMetrics
    BY <1>1 DEF ResetAccepted, Construct, NothingHappenedYet
  <2> QED  BY <2>1 DEF NoMetrics
<1>2. ASSUME NEW s \in Specs, ResetConstructionFails(s) PROVE CountsFollowFrames'
  <2>1. call' = "idle" /\ frame' = None
    BY <1>2, BeginEpisodeFacts DEF ResetConstructionFails, CloseFailure, ReleaseFrame
  <2> QED  BY <2>1
<1>3. ASSUME NEW sel \in SubmittedSelections, StepAccepted(sel) PROVE CountsFollowFrames'
  <2>1. call = "idle" /\ call' = "step" /\ frame # None /\ frame' = frame
    BY <1>3 DEF StepAccepted, StepVerdict, Live, frameVars
  <2>2. PICK b \in Resolved(sel.key) : ApplyStep(b.semantic)
    BY <1>3 DEF StepAccepted
  <2>3. b.semantic \in Keys
    BY <2>2 DEF Resolved, EnvironmentInv, EnvironmentTypeOK
  <2> QED  BY <1>a, <2>1, <2>2, <2>3, ApplyCounts
<1>4. CASE InterruptAccepted
  <2>1. /\ call = "idle" /\ call' = "interrupt" /\ frame' = frame
        /\ metrics' = Refreshed(metrics)
    BY <1>4 DEF InterruptAccepted, AdministrativeInterrupt, frameVars
  <2>2. metrics'.semantic = metrics.semantic
    BY <1>a, <2>1 DEF Refreshed, Metrics
  <2> QED  BY <2>1, <2>2
<1>5. CASE DriverAdvances
  <2>1. call' = call /\ call # "idle" /\ frame' = frame /\ lifecycle = "Advancing"
    BY <1>5, AdvanceSound DEF DriverAdvances, environmentVars, frameVars, EnvironmentInv
  <2>2. metrics'.semantic = metrics.semantic
    BY <1>a, <1>5, AdvanceKeepsCount DEF DriverAdvances
  <2>3. call # "interrupt"
    BY <2>1 DEF EnvironmentInv, CallMatchesDriver
  <2> QED  BY <2>1, <2>2, <2>3
<1>6. CASE FramePublished
  <2>1. /\ call # "idle" /\ call' = "idle" /\ lifecycle = "AwaitingDecision"
        /\ frame' = FrameFor(request, NextIndex)
        /\ metrics' = metrics /\ request' = request
    BY <1>6 DEF FramePublished, Consume, driverVars
  <2>2. call # "interrupt"
    BY <2>1 DEF EnvironmentInv, CallMatchesDriver
  <2>3. metrics.semantic = NextIndex
    BY <1>a, <2>1, <2>2 DEF NextIndex
  <2> QED  BY <2>1, <2>3 DEF FrameFor
<1>7. CASE ConsumeBoundary /\ ~FramePublished
  <2>1. call' = "idle" /\ frame' = None
    BY <1>7 DEF ConsumeBoundary, FrameNotPublishable, TerminalReached, TerminalNotPublishable,
       InterruptionReached, FailureReached, CloseUnpublishable, CloseInterrupted, CloseFailure,
       ReleaseFrame, Consume
  <2> QED  BY <2>1
<1>8. CASE UNCHANGED vars
  BY <1>8 DEF vars, driverVars, environmentVars, frameVars
<1> QED
  BY <1>1, <1>2, <1>3, <1>4, <1>5, <1>6, <1>7, <1>8
     DEF EnvironmentNext, ResetRejected, StepRejected, InterruptRejected


----------------------------------------------------------------------------
(* Every step of a run is a step of the environment, or leaves it alone. *)

(* The runner submits only what the environment has published. *)
LEMMA SelectionSubmitted ==
    ASSUME RunInv, phase = "selected" PROVE Selection \in SubmittedSelections
<1>1. boundary \in published /\ boundary \in Frames
  BY DEF RunInv, PhaseHolds, AwaitingFrame, Awaiting, RunTypeOK, EnvironmentTypeOK
<1>2. chosen \in {PublicKey(k) : k \in Keys}
  BY DEF RunInv, PhaseHolds, RunTypeOK
<1>3. boundary.episode \in Specs
  BY <1>1 DEF Frames
<1> QED  BY <1>1, <1>2, <1>3 DEF Selection, SubmittedSelections

LEMMA RunStepsEnvironment ==
    ASSUME RunInv, [RunNext]_runVars PROVE [EnvironmentNext]_vars
<1>1. manifest \in Specs
  BY DEF RunInv, RunTypeOK
<1>2. CASE EnvironmentWorks
  BY <1>2 DEF EnvironmentWorks, EnvironmentNext
<1>3. CASE RunResets
  BY <1>1, <1>3 DEF RunResets, EnvironmentNext
<1>4. CASE RunSteps
  BY <1>4, SelectionSubmitted DEF RunSteps, EnvironmentNext
<1>5. CASE RunInterrupts
  BY <1>5 DEF RunInterrupts, EnvironmentNext
<1>6. CASE RunResetRejected
  BY <1>6 DEF RunResetRejected, ResetRejected
<1>7. CASE RunStepRejected
  BY <1>7 DEF RunStepRejected, StepRejected
<1>8. CASE OnResetAccepted \/ OnStepAccepted \/ OnInterruptAccepted
  BY <1>8 DEF OnResetAccepted, OnStepAccepted, OnInterruptAccepted
<1>9. CASE PolicyFails \/ (\E k \in Keys : PolicySelects(PublicKey(k)))
  BY <1>9 DEF PolicyFails, PolicySelects
<1>10. CASE \E replayed \in BOOLEAN : Finalize(replayed)
  BY <1>10 DEF Finalize
<1>11. CASE RunAgain \/ UNCHANGED runVars
  BY <1>11 DEF RunAgain, runVars
<1> QED
  BY <1>2, <1>3, <1>4, <1>5, <1>6, <1>7, <1>8, <1>9, <1>10, <1>11 DEF RunNext, RunStep

(* What a call shows when it returns. *)
LEMMA ConsumeShows ==
    ASSUME EnvironmentInv, ConsumeBoundary
    PROVE  /\ call # "idle" /\ call' = "idle"
           /\ UNCHANGED <<transitions, episode>>
           /\ published \subseteq published'
           /\ \/ /\ state' = "AwaitingAction" /\ lifecycle = "AwaitingDecision"
                 /\ frame' = FrameFor(request, NextIndex)
              \/ /\ state' = "GameTerminal" /\ lifecycle = "Terminal" /\ frame' = None
                 /\ views' = {0, 1}
                 /\ terminal' = [count |-> metrics.semantic, last |-> LastIndex]
              \/ /\ state' = "Interrupted" /\ frame' = None
                 /\ lifecycle \in {"BudgetExhausted", "SemanticBudgetExhausted", "Interrupted"}
                 /\ lifecycle = "Interrupted" => interruption'.reason = "ADMINISTRATIVE_CANCEL"
                 /\ interruption'.count = metrics.semantic
                 /\ interruption'.last = LastIndex
              \/ /\ state' = "Failed" /\ frame' = None
                 /\ lifecycle \in {"AwaitingDecision", "Terminal", "Failed"}
                 /\ failed'.count = metrics.semantic
                 /\ failed'.last = LastDecision
<1>1. ASSUME NEW b, Consume(b)
      PROVE  call # "idle" /\ call' = "idle" /\ lifecycle = b /\ DriverPresent
  BY <1>1 DEF Consume, EnvironmentInv, CallMatchesDriver, DriverPresent
<1> USE DEF counterVars, historyVars, ReleaseFrame
<1>2. CASE FramePublished
  BY <1>1, <1>2 DEF FramePublished
<1>3. CASE TerminalReached
  BY <1>1, <1>3 DEF TerminalReached
<1>4. CASE InterruptionReached
  <2>1. UNCHANGED <<transitions, episode, published>>
    BY <1>4 DEF InterruptionReached
  <2>2. ASSUME NEW b \in {"BudgetExhausted", "SemanticBudgetExhausted", "Interrupted"},
               NEW reason \in Reasons, Consume(b), CloseInterrupted(reason),
               b = "Interrupted" => reason = "ADMINISTRATIVE_CANCEL"
        PROVE  /\ state' = "Interrupted" /\ frame' = None
               /\ call # "idle" /\ call' = "idle" /\ lifecycle = b
               /\ b = "Interrupted" => interruption'.reason = "ADMINISTRATIVE_CANCEL"
               /\ interruption'.count = metrics.semantic
               /\ interruption'.last = LastIndex
    BY <1>1, <2>2 DEF CloseInterrupted
  <2> QED  BY <1>4, <2>1, <2>2 DEF InterruptionReached, Reasons
<1>5. CASE FrameNotPublishable \/ TerminalNotPublishable \/ FailureReached
  <2>1. PICK b \in {"AwaitingDecision", "Terminal", "Failed"} : Consume(b)
    BY <1>5 DEF FrameNotPublishable, TerminalNotPublishable, FailureReached
  <2>2. /\ UNCHANGED <<transitions, episode, published>>
        /\ \E mutation : CloseFailure(FailureOf(mutation))
    BY <1>5 DEF FrameNotPublishable, TerminalNotPublishable, FailureReached, CloseUnpublishable
  <2>3. PICK mutation : CloseFailure(FailureOf(mutation))
    BY <2>2
  <2>4. /\ state' = "Failed" /\ frame' = None
        /\ failed' = [count |-> metrics.semantic, last |-> LastDecision, mutation |-> mutation]
    BY <1>1, <2>1, <2>3 DEF CloseFailure, FailureOf
  <2> QED  BY <1>1, <2>1, <2>2, <2>4
<1> QED  BY <1>2, <1>3, <1>4, <1>5 DEF ConsumeBoundary


----------------------------------------------------------------------------
(* Types of what the recorder makes. *)

(* The parts of a frame that are persisted. *)
LEMMA SnapshotTyped ==
    ASSUME NEW f \in Frames PROVE Snapshot(f) \in Snapshots /\ Snapshot(f) # None
<1>1. Snapshot(f) \in Snapshots
  BY DEF Snapshot, Snapshots, Frames
<1> QED  BY <1>1, RecordingAssumption DEF RecordingAssumption

LEMMA TargetTyped ==
    ASSUME NEW kind \in {"record", "pending"}, NEW f, f \in Frames \/ f \in Snapshots
    PROVE  Target(kind, f) \in Targets
BY DEF Target, Targets, Frames, Snapshots

(* The closure of an episode the environment has ended. *)
LEMMA ClosureTyped ==
    ASSUME EnvironmentInv, call = "idle", NEW count \in Nat,
           NEW kind \in Ends, kind = "Terminal" => state = "GameTerminal"
    PROVE  /\ ClosureOf(kind, count) \in Closures
           /\ ClosureOf(kind, count) # None
           /\ ClosureOf(kind, count).kind = kind
           /\ ClosureOf(kind, count).count = count
           /\ ClosureOf(kind, count).pending = None
           /\ kind = "Terminal" => ClosureOf(kind, count).last = terminal.last
<1>1. state = "GameTerminal" => terminal \in Terminals
  BY DEF EnvironmentInv, EnvironmentTypeOK, ClosuresMatchState
<1>2. ClosureOf(kind, count) \in Closures
  BY <1>1 DEF ClosureOf, Closures, Terminals
<1> QED  BY <1>2, RecordingAssumption DEF RecordingAssumption, ClosureOf

----------------------------------------------------------------------------
(* A call at work: recorder and runner wait. *)

LEMMA EnvironmentWorksInv ==
    ASSUME RunInv, EnvironmentWorks, EnvironmentInv', CountsFollowFrames' PROVE RunInv'
<1>1. UNCHANGED <<phase, boundary, chosen, evidence, result>>
  BY DEF EnvironmentWorks, runnerVars
<1>2. UNCHANGED <<manifest, recorder, snapshot, records, closure, rejections>>
  BY DEF EnvironmentWorks, recorderVars
<1>3. call # "idle" /\ phase \in {"resetting", "stepping", "interrupting"}
  BY DEF EnvironmentWorks, DriverAdvances, ConsumeBoundary, FramePublished, FrameNotPublishable,
     TerminalReached, TerminalNotPublishable, InterruptionReached, FailureReached, Consume,
     RunInv, PhaseHolds
<1>4. RunTypeOK'
  BY <1>1, <1>2 DEF RunInv, RunTypeOK, EnvironmentInv
<1>5. CASE DriverAdvances
  <2>1. lifecycle = "Advancing" /\ UNCHANGED environmentVars
    BY <1>5, AdvanceSound DEF DriverAdvances, RunInv, EnvironmentInv
  <2>2. call' = call /\ frame' = frame /\ episode' = episode /\ published' = published
        /\ transitions' = transitions /\ state' = state
    BY <2>1 DEF environmentVars, counterVars, frameVars, historyVars
  <2>3. call # "interrupt"
    BY <2>1 DEF RunInv, EnvironmentInv, CallMatchesDriver
  <2>4. RecordsSound'
    BY <1>2, <2>2 DEF RunInv, RecordsSound, Recorded
  <2>5. EpisodeIsManifest'
    BY <1>1, <1>2, <2>2 DEF RunInv, EpisodeIsManifest
  <2>6. phase = "resetting" => PhaseHolds'
    BY <1>1, <1>2, <1>3, <2>2 DEF RunInv, PhaseHolds, Untouched, VerdictIsDeserved, Recorded
  <2>7. phase = "interrupting" => PhaseHolds'
    BY <1>3, <2>3 DEF RunInv, PhaseHolds
  <2>8. ASSUME phase = "stepping" PROVE PhaseHolds'
    <3>1. call = "step" /\ StepTaken /\ ClassFits(Last(transitions))
      BY <1>3, <2>1, <2>8 DEF RunInv, PhaseHolds, StepTaken
    <3>2. ClassFits(Last(transitions))'
      BY <1>1, <1>2, <2>2, <3>1 DEF ClassFits, Responds, Last
    <3>3. Awaiting'
      BY <1>1, <1>2, <2>2, <3>1 DEF StepTaken, Awaiting, FrameFits, Recorded
    <3>4. StepTaken'
      BY <1>1, <1>2, <2>2, <3>1, <3>2, <3>3 DEF StepTaken, Recorded, Last
    <3> QED
      BY <1>1, <1>2, <2>2, <2>8, <3>1, <3>4 DEF RunInv, PhaseHolds, VerdictIsDeserved, Recorded
  <2> QED  BY <1>3, <1>4, <2>4, <2>5, <2>6, <2>7, <2>8 DEF RunInv
<1>6. CASE ConsumeBoundary
  <2>1. /\ call' = "idle" /\ episode' = episode
        /\ transitions' = transitions /\ published \subseteq published'
    BY <1>6, ConsumeShows DEF RunInv
  <2>2. frame' = None \/ frame' = FrameFor(request, NextIndex)
    BY <1>6, ConsumeShows DEF RunInv
  <2>3. episode = manifest
    BY <1>3 DEF RunInv, EpisodeIsManifest, PhaseHolds, EnvironmentInv, CallMatchesDriver
  <2>4. EpisodeIsManifest'
    BY <1>2, <2>1, <2>2, <2>3 DEF EpisodeIsManifest, FrameFor
  <2>5. RecordsSound'
    BY <1>2, <2>1 DEF RunInv, RecordsSound, Recorded
  <2>6. metrics.semantic \in Nat /\ published \subseteq Frames /\ published' \subseteq Frames
    BY <1>3 DEF RunInv, EnvironmentInv, EnvironmentTypeOK, DriverTypeOK, Metrics
  <2>7. state' # "Empty"
    BY <1>6, ConsumeShows DEF RunInv
  <2>8. ASSUME phase = "resetting" PROVE PhaseHolds'
    <3>1. call = "reset" /\ metrics.semantic = 0 /\ frame = None
      BY <1>3, <2>8 DEF RunInv, PhaseHolds, CountsFollowFrames, EnvironmentInv, CallMatchesDriver
    <3>2. NextIndex = 0 /\ LastIndex = None /\ LastDecision = None
      BY <3>1 DEF NextIndex, LastIndex, LastDecision
    <3>3. ResultFits(0, None)'
      BY <1>2, <1>6, <2>3, <3>1, <3>2, ConsumeShows
         DEF RunInv, ResultFits, FrameFits, FrameFor, LastBefore
    <3> QED
      BY <1>1, <1>2, <2>1, <2>7, <2>8, <3>3
         DEF RunInv, PhaseHolds, Untouched, VerdictIsDeserved, Recorded
  <2>9. ASSUME phase = "stepping" PROVE PhaseHolds'
    <3>1. /\ call = "step" /\ StepTaken /\ Awaiting /\ frame = boundary /\ frame # None
          /\ lifecycle = "Failed" \/ ClassFits(Last(transitions))
      BY <1>3, <2>9 DEF RunInv, PhaseHolds, StepTaken, EnvironmentInv, CallMatchesDriver
    <3>2. metrics.semantic = frame.index + 1 \/ lifecycle = "Failed"
      BY <3>1 DEF RunInv, CountsFollowFrames
    <3>3. frame.index = Recorded /\ Recorded \in Nat
      BY <3>1 DEF Awaiting, FrameFits, Recorded, RunInv, RunTypeOK
    <3>4. NextIndex = Recorded + 1 /\ LastIndex = Recorded /\ LastDecision = frame.decision
      BY <3>1, <3>3 DEF NextIndex, LastIndex, LastDecision
    <3>5. snapshot = Snapshot(frame) /\ snapshot # None
      BY <2>6, <3>1, SnapshotTyped DEF Awaiting
    <3>6. snapshot.index = Recorded /\ snapshot.decision = frame.decision
      BY <3>3, <3>5 DEF Snapshot
    <3>7. Recorded' = Recorded
      BY <1>2 DEF Recorded
    <3>8. state' = "Failed" \/ SuccessorFits'
      <4> DEFINE n == Recorded + 1
      <4>1. n # 0 /\ n - 1 = Recorded
        BY <3>3
      <4>2. state' = "Failed" \/ ResultFits(n, snapshot)'
        BY <1>2, <1>6, <2>3, <3>2, <3>3, <3>4, <3>5, <3>6, <3>7, <4>1, ConsumeShows
           DEF RunInv, ResultFits, FrameFits, FrameFor, LastBefore
      <4> QED  BY <1>2, <3>7, <4>2 DEF SuccessorFits
    <3>9. state' = "Failed" \/ ClassFits(Last(transitions))'
      <4>1. CASE lifecycle = "Failed"
        BY <1>6, <4>1, ConsumeShows DEF RunInv
      <4>2. CASE ClassFits(Last(transitions))
        BY <1>1, <1>2, <2>1, <4>2 DEF ClassFits, Responds, Last
      <4> QED  BY <3>1, <4>1, <4>2
    <3>10. Awaiting'
      BY <1>1, <1>2, <2>1, <3>1 DEF Awaiting, FrameFits, Recorded
    <3>11. StepTaken'
      BY <1>1, <1>2, <2>1, <2>7, <3>1, <3>8, <3>9, <3>10 DEF StepTaken, Recorded, Last
    <3> QED
      BY <1>1, <1>2, <2>1, <2>9, <3>11 DEF RunInv, PhaseHolds, VerdictIsDeserved, Recorded
  <2>10. ASSUME phase = "interrupting" PROVE PhaseHolds'
    <3>1. /\ call = "interrupt" /\ Awaiting /\ frame = boundary /\ frame # None
          /\ Recorded = Len(transitions)
          /\ lifecycle = "Interrupted"
      BY <1>3, <2>10 DEF RunInv, PhaseHolds, EnvironmentInv, CallMatchesDriver
    <3>2. metrics.semantic = frame.index /\ frame.index = Recorded
      BY <3>1 DEF RunInv, CountsFollowFrames, Awaiting, FrameFits
    <3>3. LastIndex = Recorded /\ snapshot = Snapshot(frame) /\ snapshot.index = Recorded
      BY <3>1, <3>2 DEF LastIndex, Awaiting, Snapshot
    <3>4. Awaiting' /\ Recorded' = Recorded
      BY <1>1, <1>2, <2>1, <3>1 DEF Awaiting, FrameFits, Recorded
    <3>5. /\ state' = "Interrupted" /\ interruption'.reason = "ADMINISTRATIVE_CANCEL"
          /\ interruption'.count = Recorded /\ interruption'.last = Recorded
      BY <1>6, <3>1, <3>2, <3>3, ConsumeShows DEF RunInv
    <3>6. InterruptionFits'
      BY <1>1, <1>2, <3>1, <3>3, <3>4, <3>5 DEF InterruptionFits, Awaiting
    <3> QED
      BY <1>1, <1>2, <2>1, <2>10, <3>1, <3>4, <3>6
         DEF RunInv, PhaseHolds, VerdictIsDeserved
  <2> QED  BY <1>3, <1>4, <2>4, <2>5, <2>8, <2>9, <2>10 DEF RunInv
<1> QED  BY <1>5, <1>6 DEF EnvironmentWorks


----------------------------------------------------------------------------
(* The calls the runner begins. *)

LEMMA RunResetsInv ==
    ASSUME RunInv, RunResets, EnvironmentInv', CountsFollowFrames' PROVE RunInv'
<1>1. /\ phase = "new" /\ phase' = "resetting"
      /\ UNCHANGED <<boundary, chosen, evidence, result>>
      /\ UNCHANGED <<manifest, recorder, snapshot, records, closure, rejections>>
  BY DEF RunResets, recorderVars
<1>2. Untouched /\ state = "Empty" /\ rejections = 0
  BY <1>1 DEF RunInv, PhaseHolds
<1>3. manifest \in Specs
  BY DEF RunInv, RunTypeOK
<1>4. /\ UNCHANGED <<transitions, published>>
      /\ frame' = None
      /\ episode' = manifest
      /\ \/ call' = "reset"
         \/ /\ call' = "idle" /\ state' = "Failed"
            /\ failed'.count = 0 /\ failed'.last = None
  <2>1. ASSUME NEW c \in Controls, ResetAccepted(manifest, c)
        PROVE  UNCHANGED <<transitions, published>> /\ frame' = None /\ episode' = manifest /\ call' = "reset"
    BY <2>1 DEF ResetAccepted, BeginEpisode, historyVars
  <2>2. ASSUME ResetConstructionFails(manifest)
        PROVE  /\ UNCHANGED <<transitions, published>> /\ frame' = None /\ episode' = manifest
               /\ call' = "idle" /\ state' = "Failed" /\ failed'.count = 0 /\ failed'.last = None
    BY <2>2 DEF ResetConstructionFails, BeginEpisode, historyVars, CloseFailure, ReleaseFrame
  <2> QED  BY <2>1, <2>2 DEF RunResets
<1>5. RunTypeOK'
  BY <1>1 DEF RunInv, RunTypeOK, EnvironmentInv
<1>6. RecordsSound'
  BY <1>1, <1>4 DEF RunInv, RecordsSound, Recorded
<1>7. EpisodeIsManifest'
  BY <1>4 DEF EpisodeIsManifest
<1>8. call' = "idle" => ResultFits(0, None)'
  BY <1>4 DEF ResultFits
<1>9. Untouched'
  BY <1>1, <1>2, <1>4 DEF Untouched
<1>10. Recorded' = 0 /\ Len(transitions') = 0
  BY <1>9 DEF Recorded, Untouched
<1>11. PhaseHolds'
  BY <1>1, <1>2, <1>4, <1>8, <1>9, <1>10 DEF PhaseHolds, Untouched, VerdictIsDeserved
<1> QED  BY <1>5, <1>6, <1>7, <1>11 DEF RunInv

LEMMA RunStepsInv ==
    ASSUME RunInv, RunSteps, EnvironmentInv', CountsFollowFrames' PROVE RunInv'
<1>1. /\ phase = "selected" /\ phase' = "stepping"
      /\ UNCHANGED <<boundary, chosen, evidence, result>>
      /\ UNCHANGED <<manifest, recorder, snapshot, records, closure, rejections>>
      /\ StepAccepted(Selection)
  BY DEF RunSteps, recorderVars
<1>2. /\ AwaitingFrame /\ rejections = 0 /\ call = "idle" /\ closure = None
      /\ frame = boundary /\ Awaiting /\ Recorded = Len(transitions)
  BY <1>1 DEF RunInv, PhaseHolds, AwaitingFrame, Awaiting
<1> DEFINE entry == [token |-> frame.token, index |-> frame.index,
                     submitted |-> accepted' = "submitted"]
<1>3. /\ call' = "step" /\ frame # None /\ chosen \in frame.keys
      /\ transitions' = Append(transitions, entry)
      /\ UNCHANGED <<state, episode, frame, published>>
  BY <1>1 DEF StepAccepted, StepVerdict, Live, Selection, counterVars, frameVars
<1>4. PICK b \in Resolved(chosen) : ApplyStep(b.semantic)
  BY <1>1 DEF StepAccepted, Selection
<1>5. /\ transitions \in Seq(Transitions) /\ frame \in Frames /\ request \in Requests
      /\ records \in Seq(Records)
  <2>1. lifecycle = "AwaitingDecision"
    BY <1>2, <1>3 DEF RunInv, EnvironmentInv, CallMatchesDriver
  <2> QED
    BY <1>3, <2>1 DEF RunInv, RunTypeOK, EnvironmentInv, EnvironmentTypeOK, DriverSound
<1>a. entry.submitted \in BOOLEAN
  BY Zenon
<1>6. entry \in Transitions
  BY <1>5, <1>a DEF Transitions, Frames
<1>7. /\ Len(transitions') = Recorded + 1 /\ Recorded \in Nat
      /\ Last(transitions') = entry
      /\ \A i \in 1..Recorded : transitions'[i] = transitions[i]
  BY <1>2, <1>3, <1>5, <1>6 DEF Last, Recorded
<1>8. Recorded' = Recorded
  BY <1>1 DEF Recorded
<1>9. RunTypeOK'
  BY <1>1 DEF RunInv, RunTypeOK, EnvironmentInv
<1>10. RecordsSound'
  BY <1>1, <1>3, <1>7, <1>8 DEF RunInv, RecordsSound
<1>11. EpisodeIsManifest'
  BY <1>1, <1>3 DEF RunInv, EpisodeIsManifest
<1>12. Awaiting'
  BY <1>1, <1>2, <1>3, <1>8 DEF Awaiting, FrameFits
<1>13. lifecycle' = "Failed" \/ ClassFits(Last(transitions))'
  <2>1. bindings = BindingsFor(request) /\ frame.decision.content = request
    BY <1>2, <1>3 DEF RunInv, CountsFollowFrames, EnvironmentInv, FrameMatchesRequest
  <2>2. chosen = PublicKey(b.semantic)
    BY <1>4, <2>1 DEF Resolved, BindingsFor
  <2>3. snapshot.decision.content = request /\ chosen.public = b.semantic
    BY <1>2, <2>1, <2>2 DEF Awaiting, Snapshot, PublicKey
  <2>4. Responds' = (b.semantic \in request.finals)
    BY <1>1, <2>3 DEF Responds
  <2>5. Last(transitions)'.submitted = (accepted' = "submitted")
    BY <1>7
  <2>6. \/ lifecycle' = "Failed"
        \/ b.semantic \in request.picks /\ accepted' = "unsubmitted"
        \/ b.semantic \in request.finals /\ accepted' = "submitted"
    BY <1>4 DEF ApplyStep, ApplyFailsUncounted, PickPublished, PickUnpublishable, PickOverBudget,
       ResponseSubmitted, ResponseInconsistent, ApplyPick, ApplyFinal, CloseWithFailure
  <2>7. b.semantic \in request.picks => request.continuation = TRUE /\ b.semantic \notin request.finals
    BY <1>5 DEF Requests
  <2>8. snapshot'.decision.content.continuation = request.continuation
    BY <1>1, <2>3
  <2>9. ASSUME b.semantic \in request.picks, accepted' = "unsubmitted"
        PROVE  ClassFits(Last(transitions))'
    <3>1. ~Responds'
      BY <2>4, <2>7, <2>9
    <3>2. Last(transitions)'.submitted = FALSE
      BY <2>5, <2>9
    <3>3. snapshot'.decision.content.continuation
      BY <2>7, <2>8, <2>9
    <3>4. Responds' = FALSE
      BY <3>1 DEF Responds
    <3> QED  BY <3>2, <3>3, <3>4, Zenon DEF ClassFits
  <2>10. ASSUME b.semantic \in request.finals, accepted' = "submitted"
         PROVE  ClassFits(Last(transitions))'
    <3>1. Responds' /\ Last(transitions)'.submitted
      BY <2>4, <2>5, <2>10
    <3> QED  BY <2>4, <2>5, <2>10, <3>1, Zenon DEF ClassFits
  <2> QED  BY <2>6, <2>9, <2>10
<1>14. StepTaken'
  BY <1>1, <1>2, <1>3, <1>7, <1>8, <1>12, <1>13 DEF StepTaken
<1>15. PhaseHolds'
  BY <1>1, <1>2, <1>3, <1>14 DEF PhaseHolds, VerdictIsDeserved
<1> QED  BY <1>9, <1>10, <1>11, <1>15 DEF RunInv

LEMMA RunInterruptsInv ==
    ASSUME RunInv, RunInterrupts, EnvironmentInv', CountsFollowFrames' PROVE RunInv'
<1>1. /\ phase = "cancelling" /\ phase' = "interrupting"
      /\ UNCHANGED <<boundary, chosen, evidence, result>>
      /\ UNCHANGED <<manifest, recorder, snapshot, records, closure, rejections>>
      /\ InterruptAccepted
  BY DEF RunInterrupts, recorderVars
<1>2. /\ call' = "interrupt"
      /\ UNCHANGED <<state, episode, frame, published, transitions>>
  BY <1>1 DEF InterruptAccepted, counterVars, frameVars, historyVars
<1>3. Awaiting /\ frame = boundary /\ Recorded = Len(transitions) /\ rejections = 1 /\ closure = None
  BY <1>1 DEF RunInv, PhaseHolds, AwaitingFrame, Awaiting
<1>4. Awaiting' /\ Recorded' = Recorded
  BY <1>1, <1>2, <1>3 DEF Awaiting, FrameFits, Recorded
<1>5. RunTypeOK'
  BY <1>1 DEF RunInv, RunTypeOK, EnvironmentInv
<1>6. RecordsSound' /\ EpisodeIsManifest'
  BY <1>1, <1>2 DEF RunInv, RecordsSound, Recorded, EpisodeIsManifest
<1>7. PhaseHolds'
  BY <1>1, <1>2, <1>3, <1>4 DEF PhaseHolds, VerdictIsDeserved
<1> QED  BY <1>5, <1>6, <1>7 DEF RunInv


----------------------------------------------------------------------------
(* The reports to the recorder. *)

(* Nothing of the environment moves while its result is reported. *)
LEMMA EnvironmentRests ==
    ASSUME UNCHANGED vars
    PROVE  UNCHANGED <<state, episode, frame, terminal, interruption, failed, views, call, published,
                       transitions, lifecycle>>
BY DEF vars, driverVars, environmentVars, counterVars, frameVars, closureVars, historyVars

(* The last call has returned: a frame is awaited or an ending is reached. *)
LEMMA ResultIsKnown ==
    ASSUME RunInv, call = "idle", state # "Empty"
    PROVE  /\ state \in {"AwaitingAction", "GameTerminal", "Interrupted", "Failed"}
           /\ state = "AwaitingAction" => frame \in published /\ frame \in Frames /\ frame # None
           /\ state # "AwaitingAction" => EndOf \in Ends
           /\ EndOf = "Terminal" => state = "GameTerminal"
           /\ (interruption # None) = (EndOf = "Interrupted")
           /\ interruption \in Interruptions \cup {None}
<1>1. state \in {"AwaitingAction", "GameTerminal", "Interrupted", "Failed"}
  BY DEF RunInv, EnvironmentInv, EnvironmentTypeOK
<1>2. state = "AwaitingAction" => frame \in published /\ frame \in Frames /\ frame # None
  BY DEF RunInv, EnvironmentInv, EnvironmentTypeOK, CallMatchesDriver, GenerationsGrow
<1>3. /\ state # "AwaitingAction" => EndOf \in Ends
      /\ EndOf = "Terminal" => state = "GameTerminal"
      /\ (EndOf = "Interrupted") = (state = "Interrupted")
  BY <1>1 DEF EndOf, Ends
<1>4. (interruption # None) = (state = "Interrupted") /\ interruption \in Interruptions \cup {None}
  BY DEF RunInv, EnvironmentInv, EnvironmentTypeOK, ClosuresMatchState
<1> QED  BY <1>1, <1>2, <1>3, <1>4

LEMMA OnResetAcceptedInv ==
    ASSUME RunInv, OnResetAccepted, EnvironmentInv', CountsFollowFrames' PROVE RunInv'
<1>1. /\ phase = "resetting" /\ call = "idle" /\ UNCHANGED vars
      /\ UNCHANGED <<chosen, manifest, rejections>>
  BY DEF OnResetAccepted, Returned
<1>2. UNCHANGED <<state, episode, frame, terminal, interruption, call, published, transitions>>
  BY <1>1, EnvironmentRests
<1>3. Untouched /\ state # "Empty" /\ ResultFits(0, None) /\ rejections = 0
  BY <1>1 DEF RunInv, PhaseHolds
<1>4. TakeBoundary(0) /\ UNCHANGED <<records, result>> /\ evidence' = interruption
  BY <1>3 DEF OnResetAccepted, Proceed
<1>5. records' = <<>> /\ transitions' = <<>> /\ Recorded' = 0 /\ Len(transitions') = 0
  BY <1>2, <1>3, <1>4 DEF Untouched, Recorded
<1>6. RecordsSound'
  BY <1>5 DEF RecordsSound
<1>7. CASE state = "AwaitingAction"
  <2>1. /\ recorder' = "AwaitingAction" /\ snapshot' = Snapshot(frame) /\ closure' = None
        /\ phase' = "choosing" /\ boundary' = frame
    BY <1>3, <1>4, <1>7 DEF TakeBoundary, OnResetAccepted, Proceed, NextBoundary, Untouched
  <2>2. frame \in published /\ frame \in Frames /\ frame # None /\ Snapshot(frame) \in Snapshots
    BY <1>1, <1>3, <1>7, ResultIsKnown, SnapshotTyped
  <2>3. RunTypeOK'
    BY <1>1, <1>2, <1>4, <2>1, <2>2, ResultIsKnown, <1>3 DEF RunInv, RunTypeOK, EnvironmentInv
  <2>4. FrameFits(frame, 0)
    BY <1>3, <1>7 DEF ResultFits
  <2>5. EpisodeIsManifest'
    BY <1>1, <1>2 DEF RunInv, EpisodeIsManifest
  <2>6. Awaiting'
    BY <1>1, <1>2, <1>5, <2>1, <2>2, <2>4 DEF Awaiting, FrameFits
  <2>7. PhaseHolds'
    BY <1>1, <1>2, <1>3, <1>5, <2>1, <2>6 DEF PhaseHolds, AwaitingFrame, VerdictIsDeserved
  <2> QED  BY <1>6, <2>3, <2>5, <2>7 DEF RunInv
<1>8. CASE state # "AwaitingAction"
  <2>1. /\ recorder' = "Closed" /\ snapshot' = None /\ closure' = ClosureOf(EndOf, 0)
        /\ phase' = "finalizing" /\ boundary' = boundary
    BY <1>3, <1>4, <1>8 DEF TakeBoundary, OnResetAccepted, Proceed
  <2>2. /\ EndOf \in Ends
        /\ EndOf = "Terminal" => state = "GameTerminal"
        /\ (interruption # None) = (EndOf = "Interrupted")
        /\ interruption \in Interruptions \cup {None}
        /\ state \in {"GameTerminal", "Interrupted", "Failed"}
    BY <1>1, <1>3, <1>8, ResultIsKnown
  <2>3. /\ closure' \in Closures /\ closure' # None /\ closure'.kind = EndOf /\ closure'.count = 0
        /\ closure'.pending = None
        /\ EndOf = "Terminal" => closure'.last = terminal.last
    BY <1>1, <2>1, <2>2, ClosureTyped DEF RunInv
  <2>4. RunTypeOK'
    BY <1>1, <1>4, <2>1, <2>2, <2>3 DEF RunInv, RunTypeOK, EnvironmentInv
  <2>5. EndOf = "Terminal" => terminal.last = LastBefore(0)
    BY <1>3, <2>2 DEF ResultFits
  <2>6. EnvelopeValid'
    BY <1>5, <2>3, <2>5 DEF EnvelopeValid, LastBefore
  <2>7. EvidenceFits'
    BY <1>4, <2>2, <2>3 DEF EvidenceFits
  <2>8. EndOf' = EndOf
    BY <1>2 DEF EndOf
  <2>9. Sealed'
    BY <1>1, <1>2, <1>3, <1>5, <2>1, <2>2, <2>3, <2>6, <2>7, <2>8 DEF Sealed
  <2>10. EpisodeIsManifest'
    BY <1>1, <1>2 DEF RunInv, EpisodeIsManifest
  <2>11. closure'.kind = "Failed" => state' = "Failed"
    BY <1>2, <2>2, <2>3 DEF EndOf
  <2>12. PhaseHolds'
    BY <1>1, <1>2, <1>3, <1>5, <2>1, <2>3, <2>9, <2>11 DEF PhaseHolds, VerdictIsDeserved
  <2> QED  BY <1>6, <2>4, <2>10, <2>12 DEF RunInv
<1> QED  BY <1>7, <1>8


(* A token names one frame: the answered frame is the runner's. *)
LEMMA AnsweredIsBoundary ==
    ASSUME RunInv, NEW f \in published, NEW t, t.token = f.token PROVE AnsweredFrame(t) = f
<1>1. \A g \in published : g.token = t.token => g = f
  BY DEF RunInv, EnvironmentInv, FramesIdentified
<1> QED  BY <1>1 DEF AnsweredFrame

(* The new record follows the ones before it. *)
LEMMA RecordAppended ==
    ASSUME RunInv, Awaiting, Len(transitions) = Recorded + 1,
           UNCHANGED <<transitions, published, manifest>>,
           Last(transitions).token = boundary.token, ClassFits(Last(transitions)),
           NewRecord \in Records,
           records' = Append(records, NewRecord)
    PROVE  /\ RecordsSound'
           /\ Recorded' = Recorded + 1
           /\ Recorded \in Nat
           /\ records'[Recorded + 1] = NewRecord
           /\ records' \in Seq(Records)
<1>1. records \in Seq(Records) /\ transitions \in Seq(Transitions) /\ Recorded \in Nat
  BY DEF RunInv, RunTypeOK, EnvironmentInv, EnvironmentTypeOK, Recorded
<1>2. /\ records' \in Seq(Records)
      /\ Recorded' = Recorded + 1
      /\ records'[Recorded + 1] = NewRecord
      /\ \A i \in 1..Recorded : records'[i] = records[i]
  BY <1>1 DEF Recorded
<1>3. Last(transitions) = transitions[Recorded + 1]
  BY DEF Last
<1>4. /\ boundary \in published /\ snapshot = Snapshot(boundary) /\ FrameFits(boundary, Recorded)
      /\ boundary \in Frames
  BY DEF Awaiting, RunInv, EnvironmentInv, EnvironmentTypeOK
<1>5. /\ NewRecord.frame = Snapshot(boundary)
      /\ NewRecord.frame.episode = manifest
      /\ NewRecord.frame.index = Recorded
  BY <1>4 DEF NewRecord, FrameFits, Snapshot
<1>6. (NewRecord.class = "intermediate") = ~transitions[Recorded + 1].submitted
  <2> DEFINE t == transitions[Recorded + 1]
  <2>1. t.submitted \in BOOLEAN
    <3>1. Recorded + 1 \in 1..Len(transitions)
      BY <1>1
    <3>2. t \in Transitions
      BY <1>1, <3>1
    <3> QED  BY <3>2 DEF Transitions
  <2>2. NewRecord.class = Class
    BY DEF NewRecord
  <2>3. (Responds = TRUE) \/ (Responds = FALSE)
    BY DEF Responds
  <2>4. Responds = t.submitted /\ (Responds \/ snapshot.decision.content.continuation)
    BY <1>3, Zenon DEF ClassFits
  <2>5. CASE Responds = TRUE
    <3>1. t.submitted = TRUE
      BY <2>4, <2>5, Zenon
    <3>2. Class # "intermediate"
      BY <2>5 DEF Class
    <3> QED  BY <2>2, <3>1, <3>2
  <2>6. CASE Responds = FALSE
    <3>1. t.submitted = FALSE
      BY <2>4, <2>6, Zenon
    <3>2. Class = "intermediate"
      BY <2>4, <2>6 DEF Class
    <3> QED  BY <2>2, <3>1, <3>2
  <2> QED  BY <2>3, <2>5, <2>6
<1>7. \A i \in 1..(Recorded + 1) :
        /\ \E f \in published' : f.token = transitions'[i].token /\ records'[i].frame = Snapshot(f)
        /\ (records'[i].class = "intermediate") = ~transitions'[i].submitted
        /\ records'[i].frame.episode = manifest'
        /\ records'[i].frame.index = i - 1
  <2> SUFFICES ASSUME NEW i \in 1..(Recorded + 1)
               PROVE  /\ \E f \in published : f.token = transitions[i].token
                                              /\ records'[i].frame = Snapshot(f)
                      /\ (records'[i].class = "intermediate") = ~transitions[i].submitted
                      /\ records'[i].frame.episode = manifest
                      /\ records'[i].frame.index = i - 1
    OBVIOUS
  <2>1. CASE i \in 1..Recorded
    BY <1>2, <2>1 DEF RunInv, RecordsSound
  <2>2. CASE i = Recorded + 1
    <3>a. i - 1 = Recorded
      BY <1>1, <2>2
    <3>1. /\ records'[i] = NewRecord /\ i - 1 = Recorded
          /\ transitions[i].token = boundary.token
      BY <1>2, <1>3, <2>2, <3>a, Zenon
    <3>2. (records'[i].class = "intermediate") = ~transitions[i].submitted
      BY <1>6, <2>2, <3>1, Zenon
    <3>3. \E f \in published : f.token = transitions[i].token /\ records'[i].frame = Snapshot(f)
      BY <1>4, <1>5, <3>1, Zenon
    <3>4. records'[i].frame.episode = manifest /\ records'[i].frame.index = i - 1
      BY <1>5, <3>1, Zenon
    <3> QED  BY <3>2, <3>3, <3>4, Zenon
  <2>3. i \in 1..Recorded \/ i = Recorded + 1
    BY <1>1
  <2> QED  BY <2>1, <2>2, <2>3, Zenon
<1>8. \A i \in 1..Recorded :
        /\ records'[i].successor = "NextFrame"
        /\ records'[i].target = Target("record", records'[i + 1].frame)
  <2> SUFFICES ASSUME NEW i \in 1..Recorded
               PROVE  /\ records'[i].successor = "NextFrame"
                      /\ records'[i].target = Target("record", records'[i + 1].frame)
    OBVIOUS
  <2>1. CASE i \in 1..(Recorded - 1)
    <3>1. i + 1 \in 1..Recorded /\ i \in 1..Recorded
      BY <1>1, <2>1
    <3> QED  BY <1>2, <2>1, <3>1 DEF RunInv, RecordsSound
  <2>2. CASE i = Recorded
    <3>a. Recorded > 0 /\ Recorded \in 1..Recorded
      BY <1>1, <2>2
    <3>1. Recorded > 0 /\ records'[i] = records[Recorded] /\ records'[i + 1] = NewRecord
      BY <1>2, <2>2, <3>a, Zenon
    <3>2. /\ records[Recorded].successor = "NextFrame"
          /\ records[Recorded].target = Target("record", snapshot)
      BY <3>1 DEF Awaiting
    <3>3. NewRecord.frame = snapshot
      BY <1>4, <1>5
    <3> QED  BY <2>2, <3>1, <3>2, <3>3, Zenon
  <2>3. i \in 1..(Recorded - 1) \/ i = Recorded
    BY <1>1
  <2> QED  BY <2>1, <2>2, <2>3, Zenon
<1>9. Recorded' - 1 = Recorded /\ Len(transitions') = Recorded'
  BY <1>1, <1>2
<1>10. Recorded' \in {Len(transitions') - 1, Len(transitions')}
  BY <1>9
<1>11. RecordsSound'
  BY <1>2, <1>7, <1>8, <1>9, <1>10 DEF RecordsSound
<1> QED  BY <1>1, <1>2, <1>11

LEMMA OnStepAcceptedInv ==
    ASSUME RunInv, OnStepAccepted, EnvironmentInv', CountsFollowFrames' PROVE RunInv'
<1> DEFINE t == Last(transitions)
           fits == TransitionFits(t) /\ ClassFits(t) /\ SuccessorFits
<1>1. /\ phase = "stepping" /\ call = "idle" /\ UNCHANGED vars
      /\ UNCHANGED <<chosen, manifest, rejections>>
  BY DEF OnStepAccepted, Returned
<1>2. UNCHANGED <<state, episode, frame, terminal, interruption, call, published, transitions>>
  BY <1>1, EnvironmentRests
<1>3. /\ StepTaken /\ Awaiting /\ state # "Empty" /\ rejections = 0 /\ closure = None
      /\ Len(transitions) = Recorded + 1
      /\ state = "Failed" \/ (ClassFits(t) /\ SuccessorFits)
  BY <1>1 DEF RunInv, PhaseHolds, StepTaken, Awaiting
<1>4. /\ boundary \in published /\ boundary \in Frames /\ snapshot = Snapshot(boundary)
      /\ snapshot # None /\ FrameFits(boundary, Recorded)
      /\ snapshot \in Snapshots
  BY <1>3, SnapshotTyped DEF Awaiting, RunInv, EnvironmentInv, EnvironmentTypeOK
<1>5. t.token = boundary.token /\ t.index = boundary.index /\ chosen \in boundary.keys
  BY <1>3 DEF StepTaken
<1>6. TransitionFits(t)
  <2>1. AnsweredFrame(t) = boundary
    BY <1>4, <1>5, AnsweredIsBoundary
  <2> QED  BY <1>4, <1>5, <2>1 DEF TransitionFits, Snapshot
<1>7. EpisodeIsManifest'
  BY <1>1, <1>2 DEF RunInv, EpisodeIsManifest
<1>8. CASE ~fits
  <2>1. state = "Failed"
    BY <1>3, <1>6, <1>8
  <2>2. /\ recorder' = "Closed" /\ snapshot' = None /\ records' = records
        /\ closure' = [kind |-> "Failed", count |-> Recorded, last |-> None, pending |-> None]
        /\ phase' = "done" /\ result' = "Failed" /\ UNCHANGED <<boundary, evidence>>
    BY <1>8 DEF OnStepAccepted, FailClosed, Proceed, Return
  <2>3. Recorded \in Nat /\ Recorded' = Recorded
    BY <2>2 DEF Recorded, RunInv, RunTypeOK
  <2>4. closure' \in Closures /\ closure'.kind = "Failed"
    BY <2>2, <2>3 DEF Closures, Ends
  <2>5. RunTypeOK'
    BY <1>1, <2>2, <2>4 DEF RunInv, RunTypeOK, EnvironmentInv
  <2>6. RecordsSound'
    BY <1>1, <1>2, <2>2, <2>3 DEF RunInv, RecordsSound
  <2>7. VerdictIsDeserved'
    BY <1>1, <1>3, <2>2 DEF VerdictIsDeserved
  <2>8. PhaseHolds'
    BY <1>1, <1>2, <1>3, <2>1, <2>2, <2>3, <2>7 DEF PhaseHolds
  <2> QED  BY <1>7, <2>5, <2>6, <2>8 DEF RunInv
<1>9. CASE fits
  <2>1. /\ TakeBoundary(Recorded + 1) /\ records' = Append(records, NewRecord)
        /\ result' = result /\ evidence' = interruption
    BY <1>9 DEF OnStepAccepted, Proceed
  <2>2. /\ state \in {"AwaitingAction", "GameTerminal", "Interrupted", "Failed"}
        /\ state = "AwaitingAction" => frame \in published /\ frame \in Frames /\ frame # None
        /\ state # "AwaitingAction" => EndOf \in Ends
        /\ EndOf = "Terminal" => state = "GameTerminal"
        /\ (interruption # None) = (EndOf = "Interrupted")
        /\ interruption \in Interruptions \cup {None}
    BY <1>1, <1>3, ResultIsKnown
  <2>3. NewRecord \in Records
    <3>1. Class \in Classes
      BY DEF Class, Classes
    <3>2. chosen \in {PublicKey(k) : k \in Keys}
      BY <1>4, <1>5 DEF Frames
    <3>3. state = "AwaitingAction" => Target("record", frame) \in Targets
      BY <2>2, TargetTyped
    <3> QED  BY <1>4, <2>2, <3>1, <3>2, <3>3 DEF NewRecord, Records
  <2>4. /\ RecordsSound' /\ Recorded' = Recorded + 1 /\ Recorded \in Nat
        /\ records'[Recorded + 1] = NewRecord /\ records' \in Seq(Records)
    BY <1>1, <1>2, <1>3, <1>5, <1>9, <2>1, <2>3, RecordAppended
  <2>5. Recorded' > 0 /\ Recorded' = Len(transitions') /\ records'[Recorded'] = NewRecord
    BY <1>2, <1>3, <2>4
  <2>6. CASE state = "AwaitingAction"
    <3>1. /\ recorder' = "AwaitingAction" /\ snapshot' = Snapshot(frame) /\ closure' = None
          /\ phase' = "choosing" /\ boundary' = frame
      BY <1>3, <1>9, <2>1, <2>6 DEF TakeBoundary, OnStepAccepted, Proceed, NextBoundary
    <3>2. Snapshot(frame) \in Snapshots
      BY <2>2, <2>6, SnapshotTyped
    <3>3. RunTypeOK'
      BY <1>1, <2>1, <2>2, <2>4, <2>6, <3>1, <3>2 DEF RunInv, RunTypeOK, EnvironmentInv
    <3>4. FrameFits(frame, Recorded + 1)
      BY <1>9, <2>6 DEF SuccessorFits, ResultFits
    <3>5. NewRecord.successor = "NextFrame" /\ NewRecord.target = Target("record", frame)
      BY <2>6 DEF NewRecord
    <3>6. Target("record", frame) = Target("record", Snapshot(frame))
      BY DEF Target, Snapshot
    <3>7. Awaiting'
      BY <1>1, <1>2, <2>2, <2>4, <2>5, <2>6, <3>1, <3>4, <3>5, <3>6 DEF Awaiting, FrameFits
    <3>8. PhaseHolds'
      BY <1>1, <1>2, <1>3, <2>5, <3>1, <3>7 DEF PhaseHolds, AwaitingFrame, VerdictIsDeserved
    <3> QED  BY <1>7, <2>4, <3>3, <3>8 DEF RunInv
  <2>7. CASE state # "AwaitingAction"
    <3>1. /\ recorder' = "Closed" /\ snapshot' = None /\ closure' = ClosureOf(EndOf, Recorded + 1)
          /\ phase' = "finalizing" /\ boundary' = boundary
      BY <1>9, <2>1, <2>7 DEF TakeBoundary, OnStepAccepted, Proceed
    <3>2. Recorded + 1 \in Nat /\ Recorded + 1 # 0 /\ (Recorded + 1) - 1 = Recorded
      BY <2>4
    <3>3. /\ closure' \in Closures /\ closure' # None /\ closure'.kind = EndOf
          /\ closure'.count = Recorded + 1
          /\ closure'.pending = None
          /\ EndOf = "Terminal" => closure'.last = terminal.last
      BY <1>1, <2>2, <2>7, <3>1, <3>2, ClosureTyped DEF RunInv
    <3>4. RunTypeOK'
      BY <1>1, <2>1, <2>2, <2>4, <3>1, <3>3 DEF RunInv, RunTypeOK, EnvironmentInv
    <3>5. EndOf = "Terminal" => closure'.last = LastBefore(Recorded')
      BY <1>9, <2>2, <2>4, <3>3 DEF SuccessorFits, ResultFits
    <3>6. NewRecord.successor = EndOf
      BY <2>7 DEF NewRecord
    <3>7. EnvelopeValid'
      BY <2>4, <2>5, <3>3, <3>5, <3>6 DEF EnvelopeValid, RecordsSound
    <3>8. EvidenceFits'
      BY <2>1, <2>2, <3>3 DEF EvidenceFits
    <3>9. EndOf' = EndOf
      BY <1>2 DEF EndOf
    <3>10. Sealed'
      BY <1>1, <1>2, <1>3, <2>2, <2>5, <2>7, <3>1, <3>3, <3>7, <3>8, <3>9 DEF Sealed
    <3>11. closure'.kind = "Failed" => state' = "Failed"
      BY <1>2, <2>2, <3>3 DEF EndOf
    <3>12. PhaseHolds'
      BY <1>1, <1>2, <1>3, <2>5, <3>1, <3>3, <3>10, <3>11 DEF PhaseHolds, VerdictIsDeserved
    <3> QED  BY <1>7, <2>4, <3>4, <3>12 DEF RunInv
  <2> QED  BY <2>6, <2>7
<1> QED  BY <1>8, <1>9


(* A rejected selection quarantines the run. *)
LEMMA RunStepRejectedInv ==
    ASSUME RunInv, RunStepRejected, EnvironmentInv', CountsFollowFrames' PROVE RunInv'
<1>1. phase = "selected" /\ UNCHANGED vars /\ UNCHANGED <<boundary, chosen, evidence, manifest>>
  BY DEF RunStepRejected, StepRejected
<1>2. UNCHANGED <<state, episode, frame, call, published, transitions>>
  BY <1>1, EnvironmentRests
<1>3. /\ AwaitingFrame /\ Awaiting /\ rejections = 0 /\ call = "idle" /\ closure = None
      /\ frame = boundary /\ Recorded = Len(transitions)
  BY <1>1 DEF RunInv, PhaseHolds, AwaitingFrame, Awaiting
<1>4. RejectionFits
  <2>1. frame \in Frames
    BY <1>3 DEF Awaiting, RunInv, EnvironmentInv, EnvironmentTypeOK
  <2>2. frame # None
    BY <2>1, AbsenceAssumption DEF AbsenceAssumption
  <2> QED  BY <1>3, <2>2 DEF RejectionFits, Awaiting
<1>5. /\ rejections' = 1 /\ phase' = "cancelling"
      /\ UNCHANGED <<result, recorder, snapshot, records, closure>>
  BY <1>3, <1>4 DEF RunStepRejected, Quarantine
<1>6. RunTypeOK'
  BY <1>1, <1>5 DEF RunInv, RunTypeOK, EnvironmentInv
<1>7. RecordsSound' /\ EpisodeIsManifest'
  BY <1>1, <1>2, <1>5 DEF RunInv, RecordsSound, Recorded, EpisodeIsManifest
<1>8. AwaitingFrame'
  BY <1>1, <1>2, <1>3, <1>5 DEF AwaitingFrame, Awaiting, FrameFits, Recorded
<1>9. PhaseHolds'
  BY <1>2, <1>3, <1>5, <1>8 DEF PhaseHolds, AwaitingFrame, Awaiting, VerdictIsDeserved
<1> QED  BY <1>6, <1>7, <1>9 DEF RunInv

(* The last record is turned to the frame left open. *)
LEMMA PendingKeepsRecords ==
    ASSUME RunInv, Awaiting, records' = PendingAfterLast(boundary),
           UNCHANGED <<transitions, published, manifest>>
    PROVE  /\ RecordsSound'
           /\ records' \in Seq(Records)
           /\ Recorded' = Recorded
           /\ Recorded > 0 => /\ records'[Recorded].successor = "NextFrame"
                              /\ records'[Recorded].target = Target("pending", boundary)
<1>1. records \in Seq(Records) /\ Recorded \in Nat /\ boundary \in Frames
  BY DEF RunInv, RunTypeOK, Recorded, Awaiting, EnvironmentInv, EnvironmentTypeOK
<1>2. CASE records = <<>>
  <2>1. records' = records
    BY <1>2 DEF PendingAfterLast
  <2>2. Recorded = 0
    BY <1>2 DEF Recorded
  <2> QED  BY <1>1, <2>1, <2>2 DEF RunInv, RecordsSound, Recorded
<1>3. CASE records # <<>>
  <2> DEFINE n == Recorded
             r == [records[n] EXCEPT !.successor = "NextFrame", !.target = Target("pending", boundary)]
  <2>1. n \in 1..n /\ n = Len(records)
    BY <1>1, <1>3 DEF Recorded
  <2>2. records' = [records EXCEPT ![n] = r]
    BY <1>3 DEF PendingAfterLast
  <2>3. records[n] \in Records
    BY <1>1, <2>1
  <2>4. Target("pending", boundary) \in Targets
    BY <1>1, TargetTyped
  <2>5. /\ r \in Records /\ r.successor = "NextFrame" /\ r.target = Target("pending", boundary)
        /\ r.frame = records[n].frame /\ r.class = records[n].class
    BY <2>3, <2>4 DEF Records
  <2> HIDE DEF r
  <2>6. /\ records' \in Seq(Records) /\ Len(records') = Len(records)
        /\ records'[n] = r
        /\ \A i \in 1..n : i # n => records'[i] = records[i]
    BY <1>1, <2>1, <2>2, <2>5
  <2>7. Recorded' = Recorded
    BY <2>6 DEF Recorded
  <2>8. \A i \in 1..n : records'[i].frame = records[i].frame /\ records'[i].class = records[i].class
    BY <2>5, <2>6
  <2>9. \A i \in 1..(n - 1) :
          /\ records'[i] = records[i]
          /\ i \in 1..n /\ i + 1 \in 1..n
    BY <1>1, <2>1, <2>6
  <2>10. \A i \in 1..(n - 1) :
           /\ records'[i].successor = "NextFrame"
           /\ records'[i].target = Target("record", records'[i + 1].frame)
    BY <2>8, <2>9 DEF RunInv, RecordsSound
  <2>11. \A i \in 1..n :
           /\ \E f \in published : f.token = transitions[i].token /\ records'[i].frame = Snapshot(f)
           /\ (records'[i].class = "intermediate") = ~transitions[i].submitted
           /\ records'[i].frame.episode = manifest
           /\ records'[i].frame.index = i - 1
    <3> SUFFICES ASSUME NEW i \in 1..n
                 PROVE  /\ \E f \in published : f.token = transitions[i].token
                                                /\ records'[i].frame = Snapshot(f)
                        /\ (records'[i].class = "intermediate") = ~transitions[i].submitted
                        /\ records'[i].frame.episode = manifest
                        /\ records'[i].frame.index = i - 1
      OBVIOUS
    <3>1. records'[i].frame = records[i].frame /\ records'[i].class = records[i].class
      BY <2>8
    <3>2. /\ \E f \in published : f.token = transitions[i].token /\ records[i].frame = Snapshot(f)
          /\ (records[i].class = "intermediate") = ~transitions[i].submitted
          /\ records[i].frame.episode = manifest
          /\ records[i].frame.index = i - 1
      BY DEF RunInv, RecordsSound
    <3> QED  BY <3>1, <3>2, Zenon
  <2>12. Recorded \in {Len(transitions) - 1, Len(transitions)}
    BY DEF RunInv, RecordsSound
  <2>13. RecordsSound'
    BY <2>7, <2>10, <2>11, <2>12 DEF RecordsSound
  <2> QED  BY <2>5, <2>6, <2>7, <2>13
<1> QED  BY <1>2, <1>3

(* The interruption closes the recorder with the frame left open. *)
LEMMA OnInterruptAcceptedInv ==
    ASSUME RunInv, OnInterruptAccepted, EnvironmentInv', CountsFollowFrames' PROVE RunInv'
<1>1. /\ phase = "interrupting" /\ call = "idle" /\ UNCHANGED vars
      /\ UNCHANGED <<boundary, chosen, manifest, rejections>>
  BY DEF OnInterruptAccepted, Returned
<1>2. UNCHANGED <<state, episode, frame, interruption, call, published, transitions>>
  BY <1>1, EnvironmentRests
<1>3. InterruptionFits /\ Awaiting /\ Recorded = Len(transitions) /\ rejections = 1
  BY <1>1 DEF RunInv, PhaseHolds
<1>4. /\ closure' = [ClosureOf("Interrupted", Recorded) EXCEPT !.pending = Snapshot(boundary)]
      /\ records' = PendingAfterLast(boundary)
      /\ recorder' = "Closed" /\ snapshot' = None
      /\ phase' = "finalizing" /\ evidence' = interruption /\ result' = result
  BY <1>3 DEF OnInterruptAccepted
<1>5. boundary \in Frames /\ Snapshot(boundary) \in Snapshots /\ Snapshot(boundary) # None
  BY <1>3, SnapshotTyped DEF Awaiting, RunInv, EnvironmentInv, EnvironmentTypeOK
<1>6. Recorded \in Nat
  BY DEF RunInv, RunTypeOK, Recorded
<1>7. closure' = [kind |-> "Interrupted", count |-> Recorded, last |-> None,
                  pending |-> Snapshot(boundary)]
  BY <1>4 DEF ClosureOf
<1>8. closure' \in Closures /\ closure' # None
  BY <1>5, <1>6, <1>7, RecordingAssumption DEF RecordingAssumption, Closures, Ends
<1>9. /\ RecordsSound' /\ records' \in Seq(Records) /\ Recorded' = Recorded
      /\ Recorded > 0 => /\ records'[Recorded].successor = "NextFrame"
                         /\ records'[Recorded].target = Target("pending", boundary)
  BY <1>1, <1>2, <1>3, <1>4, PendingKeepsRecords
<1>10. /\ state = "Interrupted" /\ interruption # None
       /\ interruption \in Interruptions
  BY <1>1, <1>3 DEF InterruptionFits, RunInv, EnvironmentInv, EnvironmentTypeOK, ClosuresMatchState
<1>11. RunTypeOK'
  BY <1>1, <1>4, <1>8, <1>9, <1>10 DEF RunInv, RunTypeOK, EnvironmentInv
<1>12. EpisodeIsManifest'
  BY <1>1, <1>2 DEF RunInv, EpisodeIsManifest
<1>13. /\ Snapshot(boundary).episode = manifest /\ Snapshot(boundary).index = Recorded
       /\ Target("pending", boundary) = Target("pending", Snapshot(boundary))
  BY <1>3 DEF Awaiting, FrameFits, Snapshot, Target
<1>14. EnvelopeValid'
  BY <1>1, <1>5, <1>7, <1>8, <1>9, <1>13 DEF EnvelopeValid, RecordsSound
<1>15. EvidenceFits'
  BY <1>4, <1>7, <1>10 DEF EvidenceFits
<1>16. Sealed'
  BY <1>1, <1>2, <1>3, <1>4, <1>7, <1>9, <1>10, <1>14, <1>15 DEF Sealed, EndOf
<1>17. PhaseHolds'
  BY <1>1, <1>2, <1>3, <1>4, <1>7, <1>9, <1>16 DEF PhaseHolds, VerdictIsDeserved
<1> QED  BY <1>9, <1>11, <1>12, <1>17 DEF RunInv

----------------------------------------------------------------------------
(* The steps that only move the runner. *)

LEMMA FinalizeInv ==
    ASSUME RunInv, NEW replayed \in BOOLEAN, Finalize(replayed),
           EnvironmentInv', CountsFollowFrames'
    PROVE  RunInv'
<1>1. /\ phase = "finalizing" /\ phase' = "done" /\ UNCHANGED vars
      /\ UNCHANGED <<boundary, chosen, evidence>>
      /\ UNCHANGED <<manifest, recorder, snapshot, records, closure, rejections>>
      /\ result' \in {"CleanAdmitted", "Quarantined", "Failed"}
  BY DEF Finalize, Return, recorderVars
<1>2. UNCHANGED <<state, episode, frame, terminal, interruption, call, published, transitions>>
  BY <1>1, EnvironmentRests
<1>3. Sealed /\ call = "idle" /\ rejections \in 0..1
  BY <1>1 DEF RunInv, PhaseHolds, RunTypeOK
<1>4. RunTypeOK'
  BY <1>1 DEF RunInv, RunTypeOK, EnvironmentInv
<1>5. RecordsSound' /\ EpisodeIsManifest'
  BY <1>1, <1>2 DEF RunInv, RecordsSound, Recorded, EpisodeIsManifest
<1>6. /\ result' = "CleanAdmitted" => Admissible
      /\ (result' = "Quarantined") = (rejections > 0)
  <2>1. EnvelopeValid /\ EvidenceFits
    BY <1>3 DEF Sealed
  <2>2. rejections > 0 => ~Admissible /\ closure.kind # "Failed"
    BY <1>3 DEF Admissible, Sealed
  <2>3. CASE rejections > 0
    BY <2>1, <2>2, <2>3 DEF Finalize, Return
  <2>4. CASE ~(rejections > 0)
    BY <2>1, <2>4 DEF Finalize, Return
  <2> QED  BY <2>3, <2>4
<1>7. /\ closure.kind # "Failed" => terminal # None \/ interruption # None
      /\ rejections > 0 => closure.pending = Snapshot(boundary)
      /\ Recorded = Len(transitions)
  BY <1>3 DEF Sealed, EndOf, RunInv, EnvironmentInv, ClosuresMatchState
<1>8. VerdictIsDeserved'
  BY <1>1, <1>2, <1>3, <1>6, <1>7 DEF VerdictIsDeserved, Admissible, Recorded
<1>9. PhaseHolds'
  BY <1>1, <1>2, <1>3, <1>7, <1>8 DEF RunInv, PhaseHolds, Recorded
<1> QED  BY <1>4, <1>5, <1>9 DEF RunInv

(* A rejected reset or a failed policy ends the run. *)
LEMMA GivesUpInv ==
    ASSUME RunInv, RunResetRejected \/ PolicyFails, EnvironmentInv', CountsFollowFrames'
    PROVE  RunInv'
<1>1. /\ phase \in {"new", "choosing"} /\ phase' = "done" /\ result' = "Failed" /\ UNCHANGED vars
      /\ UNCHANGED <<boundary, chosen, evidence>>
      /\ UNCHANGED <<manifest, recorder, snapshot, records, closure, rejections>>
  BY DEF RunResetRejected, PolicyFails, ResetRejected, Return, recorderVars
<1>2. UNCHANGED <<state, episode, frame, call, published, transitions>>
  BY <1>1, EnvironmentRests
<1>3. call = "idle" /\ rejections = 0 /\ closure = None /\ Recorded = Len(transitions)
  BY <1>1 DEF RunInv, PhaseHolds
<1>4. RunTypeOK'
  BY <1>1 DEF RunInv, RunTypeOK, EnvironmentInv
<1>5. RecordsSound'
  BY <1>1, <1>2 DEF RunInv, RecordsSound, Recorded
<1>6. EpisodeIsManifest'
  <2>1. frame # None => phase # "new"
    BY DEF RunInv, PhaseHolds, EnvironmentInv, CallMatchesDriver
  <2> QED  BY <1>1, <1>2, <2>1 DEF RunInv, EpisodeIsManifest
<1>7. PhaseHolds'
  BY <1>1, <1>2, <1>3 DEF PhaseHolds, VerdictIsDeserved, Recorded
<1> QED  BY <1>4, <1>5, <1>6, <1>7 DEF RunInv

LEMMA PolicySelectsInv ==
    ASSUME RunInv, NEW k \in Keys, PolicySelects(PublicKey(k)), EnvironmentInv', CountsFollowFrames'
    PROVE  RunInv'
<1>1. /\ phase = "choosing" /\ phase' = "selected" /\ chosen' = PublicKey(k) /\ UNCHANGED vars
      /\ UNCHANGED <<boundary, evidence, result>>
      /\ UNCHANGED <<manifest, recorder, snapshot, records, closure, rejections>>
  BY DEF PolicySelects, recorderVars
<1>2. UNCHANGED <<state, episode, frame, call, published, transitions>>
  BY <1>1, EnvironmentRests
<1>3. call = "idle" /\ rejections = 0 /\ closure = None /\ AwaitingFrame
  BY <1>1 DEF RunInv, PhaseHolds, AwaitingFrame, Awaiting
<1>4. chosen' \in {PublicKey(j) : j \in Keys}
  BY <1>1
<1>5. RunTypeOK'
  BY <1>1 DEF RunInv, RunTypeOK, EnvironmentInv
<1>6. RecordsSound' /\ EpisodeIsManifest'
  BY <1>1, <1>2 DEF RunInv, RecordsSound, Recorded, EpisodeIsManifest
<1>7. AwaitingFrame'
  BY <1>1, <1>2, <1>3 DEF AwaitingFrame, Awaiting, FrameFits, Recorded
<1>8. PhaseHolds'
  BY <1>1, <1>2, <1>3, <1>4, <1>7 DEF PhaseHolds, AwaitingFrame, Awaiting, VerdictIsDeserved
<1> QED  BY <1>5, <1>6, <1>8 DEF RunInv


LEMMA InitRunInv == RunInit => RunInv
<1> SUFFICES ASSUME RunInit PROVE RunInv
  OBVIOUS
<1>1. EnvironmentInit /\ EnvironmentInv
  BY InitEnvironmentInv DEF RunInit
<1>2. call = "idle" /\ frame = None /\ transitions = <<>> /\ state = "Empty"
  BY <1>1 DEF EnvironmentInit
<1>3. RunTypeOK
  <2>1. records \in Seq(Records)
    BY DEF RunInit
  <2> QED  BY <1>1, <2>1 DEF RunInit, RunTypeOK, EnvironmentInv
<1>4. Recorded = 0 /\ Len(transitions) = 0
  BY <1>2 DEF RunInit, Recorded
<1>5. RecordsSound
  BY <1>4 DEF RecordsSound
<1>6. CountsFollowFrames /\ EpisodeIsManifest
  BY <1>2 DEF CountsFollowFrames, EpisodeIsManifest
<1>7. PhaseHolds
  BY <1>2, <1>4 DEF PhaseHolds, RunInit, Untouched, VerdictIsDeserved
<1> QED  BY <1>1, <1>3, <1>5, <1>6, <1>7 DEF RunInv

LEMMA RunRestsInv ==
    ASSUME RunInv, UNCHANGED runVars, EnvironmentInv', CountsFollowFrames' PROVE RunInv'
<1> USE DEF runVars, runnerVars, recorderVars
<1>1. UNCHANGED <<state, episode, frame, terminal, interruption, failed, views, call, published,
                  transitions, lifecycle>>
  BY EnvironmentRests
<1>2. RunTypeOK'
  BY DEF RunInv, RunTypeOK, EnvironmentInv
<1>3. RecordsSound' /\ EpisodeIsManifest'
  BY <1>1 DEF RunInv, RecordsSound, Recorded, EpisodeIsManifest
<1>4. Awaiting => Awaiting'
  BY <1>1 DEF Awaiting, FrameFits, Recorded
<1>5. ResultFits(0, None) => ResultFits(0, None)'
  BY <1>1 DEF ResultFits, FrameFits
<1>6. SuccessorFits => SuccessorFits'
  BY <1>1 DEF SuccessorFits, ResultFits, FrameFits, Recorded
<1>7. ClassFits(Last(transitions)) => ClassFits(Last(transitions))'
  BY <1>1 DEF ClassFits, Responds, Last
<1>8. StepTaken => StepTaken'
  BY <1>1, <1>4, <1>6, <1>7 DEF StepTaken, Recorded, Last
<1>9. InterruptionFits => InterruptionFits'
  BY <1>1 DEF InterruptionFits, FrameFits, Recorded
<1>10. Sealed => Sealed'
  BY <1>1 DEF Sealed, EnvelopeValid, EvidenceFits, EndOf, Recorded
<1>11. VerdictIsDeserved => VerdictIsDeserved'
  BY <1>1 DEF VerdictIsDeserved, Recorded
<1>12. Untouched => Untouched'
  BY <1>1 DEF Untouched
<1>13. AwaitingFrame => AwaitingFrame'
  BY <1>1, <1>4 DEF AwaitingFrame, Recorded
<1>14. Recorded' = Recorded
  BY DEF Recorded
<1>15. PhaseHolds'
  BY <1>1, <1>4, <1>5, <1>8, <1>9, <1>10, <1>11, <1>12, <1>13, <1>14 DEF RunInv, PhaseHolds
<1> QED  BY <1>2, <1>3, <1>15 DEF RunInv

(* Every step of a run keeps the invariant. *)
LEMMA RunNextInv ==
    ASSUME RunInv, [RunNext]_runVars PROVE RunInv'
<1>1. EnvironmentInv' /\ CountsFollowFrames'
  <2>1. [EnvironmentNext]_vars
    BY RunStepsEnvironment
  <2> QED  BY <2>1, EnvironmentNextInv, CountsFollow DEF RunInv
<1>2. CASE EnvironmentWorks
  BY <1>1, <1>2, EnvironmentWorksInv
<1>3. CASE RunResets
  BY <1>1, <1>3, RunResetsInv
<1>4. CASE RunResetRejected \/ PolicyFails
  BY <1>1, <1>4, GivesUpInv
<1>5. CASE OnResetAccepted
  BY <1>1, <1>5, OnResetAcceptedInv
<1>6. ASSUME NEW k \in Keys, PolicySelects(PublicKey(k)) PROVE RunInv'
  BY <1>1, <1>6, PolicySelectsInv
<1>7. CASE RunSteps
  BY <1>1, <1>7, RunStepsInv
<1>8. CASE RunStepRejected
  BY <1>1, <1>8, RunStepRejectedInv
<1>9. CASE OnStepAccepted
  BY <1>1, <1>9, OnStepAcceptedInv
<1>10. CASE RunInterrupts
  BY <1>1, <1>10, RunInterruptsInv
<1>11. CASE OnInterruptAccepted
  BY <1>1, <1>11, OnInterruptAcceptedInv
<1>12. ASSUME NEW replayed \in BOOLEAN, Finalize(replayed) PROVE RunInv'
  BY <1>1, <1>12, FinalizeInv
<1>13. CASE RunAgain \/ UNCHANGED runVars
  BY <1>1, <1>13, RunRestsInv DEF RunAgain
<1> QED
  BY <1>2, <1>3, <1>4, <1>5, <1>6, <1>7, <1>8, <1>9, <1>10, <1>11, <1>12, <1>13 DEF RunNext, RunStep

----------------------------------------------------------------------------
(***************************************************************************)
(* The theorems.                                                            *)
(***************************************************************************)

(* The invariant holds of every run. *)
THEOREM RunInvariant == RunSpec => []RunInv
<1>1. RunInit => RunInv
  BY InitRunInv
<1>2. RunInv /\ [RunNext]_runVars => RunInv'
  BY RunNextInv
<1> QED  BY <1>1, <1>2, PTL DEF RunSpec

(* Every state of a run has the types of runner, recorder and environment. *)
THEOREM RunTyped == RunSpec => []RunTypeOK
<1>1. RunInv => RunTypeOK
  BY DEF RunInv
<1> QED  BY <1>1, RunInvariant, PTL

(* While an answer is awaited the three copies of the frame agree. *)
THEOREM CopiesAgree == RunSpec => []ThreeCopiesAgree
<1>1. RunInv => ThreeCopiesAgree
  <2> SUFFICES ASSUME RunInv, phase \in {"choosing", "selected"} PROVE ThreeCopiesAgree
    BY DEF ThreeCopiesAgree
  <2>1. AwaitingFrame
    BY DEF RunInv, PhaseHolds
  <2>2. frame \in Frames
    BY <2>1 DEF AwaitingFrame, Awaiting, RunInv, EnvironmentInv, EnvironmentTypeOK
  <2>3. frame # None
    BY <2>2, AbsenceAssumption DEF AbsenceAssumption
  <2> QED  BY <2>1, <2>3 DEF AwaitingFrame, Awaiting, FrameFits, ThreeCopiesAgree
<1> QED  BY <1>1, RunInvariant, PTL

(* Every record is the accepted action it stands for, and none is missing   *)
(* but the last of a failed episode.                                        *)
THEOREM RecordsFaithful == RunSpec => []RecordsAreTransitions
<1>1. RunInv => RecordsAreTransitions
  <2> SUFFICES ASSUME RunInv PROVE RecordsAreTransitions
    OBVIOUS
  <2>1. ASSUME NEW i \in 1..Recorded
        PROVE  /\ records[i].frame = Snapshot(AnsweredFrame(transitions[i]))
               /\ (records[i].class = "intermediate") = ~transitions[i].submitted
    <3>1. PICK f \in published : f.token = transitions[i].token /\ records[i].frame = Snapshot(f)
      BY DEF RunInv, RecordsSound
    <3>2. AnsweredFrame(transitions[i]) = f
      BY <3>1, AnsweredIsBoundary
    <3>3. (records[i].class = "intermediate") = ~transitions[i].submitted
      BY DEF RunInv, RecordsSound
    <3> QED  BY <3>1, <3>2, <3>3, Zenon
  <2>2. Recorded \in {Len(transitions) - 1, Len(transitions)}
    BY DEF RunInv, RecordsSound
  <2>3. call = "idle" /\ phase # "stepping" /\ Recorded # Len(transitions) => failed # None
    BY DEF RunInv, PhaseHolds, EnvironmentInv, ClosuresMatchState
  <2> QED  BY <2>1, <2>2, <2>3 DEF RecordsAreTransitions
<1> QED  BY <1>1, RunInvariant, PTL

(* The recorder's checks refuse no episode that did not fail. *)
THEOREM NoFailureInvented == RunSpec => []RecorderFailsWithEnvironment
<1>1. RunInv => RecorderFailsWithEnvironment
  BY DEF RunInv, PhaseHolds, EnvironmentInv, ClosuresMatchState, RecorderFailsWithEnvironment
<1> QED  BY <1>1, RunInvariant, PTL

(* What the runner finalizes can be sealed. *)
THEOREM SealingNeverRefused == RunSpec => []SealingSucceeds
<1>1. RunInv => SealingSucceeds
  BY DEF RunInv, PhaseHolds, Sealed, SealingSucceeds
<1> QED  BY <1>1, RunInvariant, PTL

(* The disposition a run returns is the one it deserves. *)
THEOREM VerdictDeserved == RunSpec => []VerdictIsDeserved
<1>1. RunInv => VerdictIsDeserved
  BY DEF RunInv, PhaseHolds
<1> QED  BY <1>1, RunInvariant, PTL

(* Records are appended, nothing follows the close, and only an             *)
(* interruption turns the last record to the frame it leaves open.          *)
THEOREM RecordsOnlyAppended == RunSpec => RecordsAppendOnly
<1> DEFINE Appends ==
      /\ Recorded' >= Recorded
      /\ \A i \in 1..Recorded :
           /\ records'[i].frame = records[i].frame
           /\ records'[i].key = records[i].key
           /\ records'[i] # records[i] => i = Recorded /\ closure'.pending # None
      /\ recorder = "Closed" => UNCHANGED recorderVars
<1>1. RunInv /\ [RunNext]_runVars => [Appends]_runVars
  <2> SUFFICES ASSUME RunInv, RunNext PROVE Appends
    OBVIOUS
  <2>1. records \in Seq(Records) /\ Recorded \in Nat
    BY DEF RunInv, RunTypeOK, Recorded
  <2>2. ASSUME UNCHANGED recorderVars PROVE Appends
    BY <2>1, <2>2 DEF recorderVars, Recorded
  <2>3. ASSUME records' = records, recorder # "Closed" PROVE Appends
    BY <2>1, <2>3 DEF Recorded
  <2>4. CASE OnResetAccepted
    <3>1. recorder = "Empty"
      BY <2>4 DEF RunInv, PhaseHolds, Untouched, OnResetAccepted, Returned
    <3>2. records' = records
      BY <2>4 DEF OnResetAccepted, FailClosed
    <3> QED  BY <2>3, <3>1, <3>2
  <2>5. CASE RunStepRejected
    <3>1. recorder = "AwaitingAction"
      BY <2>5 DEF RunInv, PhaseHolds, AwaitingFrame, Awaiting, RunStepRejected
    <3>2. records' = records
      BY <2>5 DEF RunStepRejected, FailClosed, Quarantine
    <3> QED  BY <2>3, <3>1, <3>2
  <2>6. CASE OnStepAccepted
    <3>1. recorder = "AwaitingAction"
      BY <2>6 DEF RunInv, PhaseHolds, StepTaken, Awaiting, OnStepAccepted, Returned
    <3>2. records' = records \/ records' = Append(records, NewRecord)
      BY <2>6 DEF OnStepAccepted, FailClosed
    <3>3. ASSUME records' = Append(records, NewRecord) PROVE Appends
      <4>1. /\ Recorded' = Recorded + 1
            /\ \A i \in 1..Recorded : records'[i] = records[i]
        BY <2>1, <3>3 DEF Recorded
      <4> QED  BY <2>1, <3>1, <4>1
    <3> QED  BY <2>3, <3>1, <3>2, <3>3
  <2>7. CASE OnInterruptAccepted
    <3>1. /\ Awaiting /\ InterruptionFits
      BY <2>7 DEF RunInv, PhaseHolds, OnInterruptAccepted, Returned
    <3>2. /\ records' = PendingAfterLast(boundary)
          /\ closure'.pending = Snapshot(boundary)
      BY <2>7, <3>1 DEF OnInterruptAccepted, ClosureOf
    <3>3. Snapshot(boundary) # None
      BY <3>1, SnapshotTyped DEF Awaiting, RunInv, EnvironmentInv, EnvironmentTypeOK
    <3>4. CASE records = <<>>
      BY <2>3, <3>1, <3>2, <3>4 DEF PendingAfterLast, Awaiting
    <3>5. CASE records # <<>>
      <4> DEFINE r == [records[Recorded] EXCEPT !.successor = "NextFrame",
                                                !.target = Target("pending", boundary)]
      <4>1. Recorded \in 1..Recorded /\ Recorded = Len(records)
        BY <2>1, <3>5 DEF Recorded
      <4>2. records' = [records EXCEPT ![Recorded] = r]
        BY <3>2, <3>5 DEF PendingAfterLast
      <4>3. records[Recorded] \in Records
        BY <2>1, <4>1
      <4>4. r.frame = records[Recorded].frame /\ r.key = records[Recorded].key
        BY <4>3 DEF Records
      <4> HIDE DEF r
      <4>5. /\ Len(records') = Len(records)
            /\ records'[Recorded] = r
            /\ \A i \in 1..Recorded : i # Recorded => records'[i] = records[i]
        BY <2>1, <4>1, <4>2
      <4>6. Recorded' = Recorded
        BY <4>5 DEF Recorded
      <4> QED  BY <2>1, <3>1, <3>2, <3>3, <4>4, <4>5, <4>6 DEF Awaiting
    <3> QED  BY <3>4, <3>5
  <2>8. CASE \/ EnvironmentWorks \/ RunResets \/ RunResetRejected \/ PolicyFails \/ RunSteps
             \/ RunInterrupts \/ RunAgain
             \/ (\E k \in Keys : PolicySelects(PublicKey(k)))
             \/ (\E replayed \in BOOLEAN : Finalize(replayed))
    <3>1. UNCHANGED recorderVars
      BY <2>8 DEF EnvironmentWorks, RunResets, RunResetRejected, PolicyFails, RunSteps, RunInterrupts,
         RunAgain, PolicySelects, Finalize, runVars
    <3> QED  BY <2>2, <3>1
  <2> QED  BY <2>4, <2>5, <2>6, <2>7, <2>8 DEF RunNext, RunStep
<1> QED  BY <1>1, RunInvariant, PTL DEF RunSpec, RecordsAppendOnly

----------------------------------------------------------------------------
(***************************************************************************)
(* Publication: its inductive invariant.                                    *)
(***************************************************************************)

Owning == {"open", "write", "verify", "link", "contend", "clean"}

(* A publisher that is not idle works on an artifact, and one between       *)
(* allocation and cleaning owns a directory for it.                         *)
CallsInOrder ==
    \A t \in Publishers :
        /\ stage[t] = "idle" <=> artifact[t] = Nothing
        /\ stage[t] \in Owning <=> own[t] # Nothing
        /\ own[t] # Nothing => own[t].artifact = artifact[t]
        /\ stage[t] \notin {"idle", "clean"} => outcome[t] = "none"
        /\ stage[t] = "clean" => outcome[t] # "none"
        /\ stage[t] = "inspect" => FinalExists(artifact[t])

(* What is owned or abandoned exists, and nothing is both. *)
OwnedExist ==
    /\ \A t \in Publishers : own[t] # Nothing => temp[own[t]] # "absent" /\ own[t] \notin abandoned
    /\ \A n \in abandoned \cup tied : temp[n] # "absent"

(* Nobody writes to a payload that is tied to a final name, and what is     *)
(* ready to be linked is whole.                                             *)
TiedUntouched ==
    \A t \in Publishers :
        /\ own[t] \in tied => stage[t] = "clean"
        /\ stage[t] \in {"link", "contend"} => temp[own[t]] = "complete"

(* The verdict a publisher cleans up with stays true until it returns. *)
VerdictsAreTrue ==
    \A t \in Publishers : stage[t] = "clean" =>
        /\ outcome[t] = "published" => final[artifact[t]] = "complete"
        /\ outcome[t] = "conflict" => final[artifact[t]] \in ForeignFinals

StorageInv ==
    /\ StorageTypeOK
    /\ CallsInOrder
    /\ OwnedExist
    /\ TempsAreAccountedFor
    /\ TiedUntouched
    /\ FinalIsWhole
    /\ VerdictsAreTrue

----------------------------------------------------------------------------
(* The invariant holds of any directory before the first call. *)
THEOREM StorageInitInv == StorageInit => StorageInv
<1> SUFFICES ASSUME StorageInit PROVE StorageInv
  OBVIOUS
<1>1. StorageTypeOK
  BY StorageAssumption DEF StorageInit, StorageTypeOK, TempContents, Stages, Outcomes
<1>2. CallsInOrder /\ OwnedExist /\ TiedUntouched /\ VerdictsAreTrue
  BY DEF StorageInit, CallsInOrder, OwnedExist, TiedUntouched, VerdictsAreTrue, Owning, At
<1>3. TempsAreAccountedFor
  BY DEF StorageInit, TempsAreAccountedFor
<1>4. FinalIsWhole
  BY StorageAssumption DEF StorageInit, FinalIsWhole, ForeignFinals
<1> QED  BY <1>1, <1>2, <1>3, <1>4 DEF StorageInv

(* Every step of every publisher, and every crash, preserves it. *)
THEOREM StorageStepInv == StorageInv /\ [StorageNext]_storageVars => StorageInv'
<1> SUFFICES ASSUME StorageInv, [StorageNext]_storageVars PROVE StorageInv'
  OBVIOUS
<1> USE StorageAssumption, NamesAssumption
        DEF StorageInv, StorageTypeOK, CallsInOrder, OwnedExist, TempsAreAccountedFor, TiedUntouched,
            FinalIsWhole, VerdictsAreTrue, Owning, At, Goto, Finish, Leave, Stages, Outcomes, TempContents,
            diskVars, FinalExists
<1>1. ASSUME NEW t \in Publishers, Reject(t) PROVE StorageInv'
  BY <1>1 DEF Reject
<1>2. ASSUME NEW t \in Publishers, NEW a \in Artifacts, Start(t, a) PROVE StorageInv'
  BY <1>2 DEF Start
<1>3. ASSUME NEW t \in Publishers, Probe(t) PROVE StorageInv'
  BY <1>3 DEF Probe
<1>4. ASSUME NEW t \in Publishers, Inspect(t) PROVE StorageInv'
  BY <1>4 DEF Inspect, Compared
<1>5. ASSUME NEW t \in Publishers, AllocateFails(t) PROVE StorageInv'
  BY <1>5 DEF AllocateFails, NextName, CounterLeft, Publishers
<1>6. ASSUME NEW t \in Publishers, Allocate(t) PROVE StorageInv'
  <2> DEFINE name == TempName(t)
  <2>1. /\ name \in TempNames /\ name.artifact = artifact[t] /\ name # Nothing
        /\ temp[name] = "absent" /\ own[t] = Nothing
    <3>1. sequence[t[1]] \in 0..(SeqMax - 1)
      BY <1>6 DEF Allocate, CounterLeft, Publishers
    <3>2. artifact[t] \in Artifacts
      BY <1>6 DEF Allocate
    <3> QED  BY <1>6, <3>1, <3>2 DEF Allocate, TempName, TempNames, Created
  <2>2. /\ temp' = [temp EXCEPT ![name] = "bare"]
        /\ own' = [own EXCEPT ![t] = name]
        /\ stage' = [stage EXCEPT ![t] = "open"]
        /\ UNCHANGED <<final, tied, artifact, attempts, outcome, abandoned>>
    BY <1>6 DEF Allocate
  <2>3. StorageTypeOK'
    BY <1>6, <2>1, <2>2 DEF Allocate, NextName, CounterLeft, Publishers
  <2>4. CallsInOrder' /\ VerdictsAreTrue' /\ FinalIsWhole'
    BY <1>6, <2>1, <2>2 DEF Allocate
  <2>5. \A u \in Publishers : own[u] # name
    BY <2>1
  <2>6. OwnedExist' /\ TiedUntouched'
    BY <1>6, <2>1, <2>2, <2>5 DEF Allocate
  <2>7. TempsAreAccountedFor'
    BY <2>1, <2>2, <2>5
  <2> HIDE DEF name
  <2> QED  BY <2>3, <2>4, <2>6, <2>7
<1>7. ASSUME NEW t \in Publishers, NameTaken(t) PROVE StorageInv'
  BY <1>7 DEF NameTaken, NextName, CounterLeft, Publishers, AttemptsLeft
<1>8. ASSUME NEW t \in Publishers, AllocateGivesUp(t) PROVE StorageInv'
  BY <1>8 DEF AllocateGivesUp
<1>9. ASSUME NEW t \in Publishers, Open(t) PROVE StorageInv'
  BY <1>9 DEF Open, WritePayload
<1>10. ASSUME NEW t \in Publishers, Write(t) PROVE StorageInv'
  BY <1>10 DEF Write, WritePayload
<1>11. ASSUME NEW t \in Publishers, ShortWrite(t) PROVE StorageInv'
  BY <1>11 DEF ShortWrite
<1>12. ASSUME NEW t \in Publishers, PreparationFails(t) PROVE StorageInv'
  BY <1>12 DEF PreparationFails
<1>13. ASSUME NEW t \in Publishers, Verify(t) PROVE StorageInv'
  BY <1>13 DEF Verify, Verified
<1>14. ASSUME NEW t \in Publishers, Link(t) PROVE StorageInv'
  <2>1. /\ own[t] \in TempNames /\ temp[own[t]] = "complete" /\ artifact[t] \in Artifacts
        /\ final[artifact[t]] = Nothing
    BY <1>14 DEF Link, Linkable
  <2>2. /\ final' = [final EXCEPT ![artifact[t]] = "complete"]
        /\ tied' = tied \cup {own[t]}
        /\ stage' = [stage EXCEPT ![t] = "clean"]
        /\ outcome' = [outcome EXCEPT ![t] = "published"]
        /\ UNCHANGED <<temp, sequence, artifact, own, attempts, abandoned>>
    BY <1>14, <2>1 DEF Link
  <2>3. StorageTypeOK'
    BY <2>1, <2>2
  <2>4. CallsInOrder' /\ OwnedExist' /\ TempsAreAccountedFor' /\ FinalIsWhole'
    BY <1>14, <2>1, <2>2 DEF Link
  <2>5. TiedUntouched'
    BY <2>1, <2>2
  <2>6. VerdictsAreTrue'
    BY <2>1, <2>2 DEF ForeignFinals
  <2> QED  BY <2>3, <2>4, <2>5, <2>6
<1>15. ASSUME NEW t \in Publishers, LinkFails(t) PROVE StorageInv'
  BY <1>15 DEF LinkFails
<1>16. ASSUME NEW t \in Publishers, Contend(t) PROVE StorageInv'
  BY <1>16 DEF Contend, Compared
<1>17. ASSUME NEW t \in Publishers, Clean(t) PROVE StorageInv'
  BY <1>17 DEF Clean
<1>18. ASSUME NEW t \in Publishers, CleanFails(t) PROVE StorageInv'
  BY <1>18 DEF CleanFails
<1>19. ASSUME NEW p \in Processes, Crash(p) PROVE StorageInv'
  BY <1>19 DEF Crash, Publishers
<1>20. ASSUME NEW a \in Artifacts, Intrude(a) PROVE StorageInv'
  BY <1>20 DEF Intrude, ForeignFinals, publisherVars
<1>21. CASE UNCHANGED storageVars
  BY <1>21 DEF storageVars, publisherVars
<1> QED
  BY <1>1, <1>2, <1>3, <1>4, <1>5, <1>6, <1>7, <1>8, <1>9, <1>10, <1>11, <1>12, <1>13, <1>14, <1>15, <1>16,
     <1>17, <1>18, <1>19, <1>20, <1>21 DEF StorageNext, Step

(* The inductive invariant holds in every state of the specification. *)
THEOREM StorageInvariant == StorageSpec => []StorageInv
<1> QED  BY StorageInitInv, StorageStepInv, PTL DEF StorageSpec

----------------------------------------------------------------------------
(***************************************************************************)
(* The promises.                                                            *)
(***************************************************************************)

(* Type correctness; a call never tries more names than it may. *)
THEOREM StorageTyped == StorageSpec => []StorageTypeOK
<1>1. StorageInv => StorageTypeOK
  BY DEF StorageInv
<1> QED  BY <1>1, StorageInvariant, PTL

(* No partial artifact is ever visible under a final name, whatever crashes *)
(* leave behind: publish_content_addressed_artifact links only what it has  *)
(* reread, and never opens a directory it did not create.                   *)
THEOREM FinalsWhole == StorageSpec => []FinalIsWhole
<1>1. StorageInv => FinalIsWhole
  BY DEF StorageInv
<1> QED  BY <1>1, StorageInvariant, PTL

(* Every temporary directory has one owner or is left for good. *)
THEOREM TempsAccounted == StorageSpec => []TempsAreAccountedFor
<1>1. StorageInv => TempsAreAccountedFor
  BY DEF StorageInv
<1> QED  BY <1>1, StorageInvariant, PTL

(* Of what a publisher does, only linking changes a final name: writers     *)
(* never hold a payload that is tied to one.                                *)
LEMMA FinalChangesInLink ==
    ASSUME StorageInv, [StorageNext]_storageVars
    PROVE  \/ UNCHANGED final
           \/ \E t \in Publishers : Link(t)
           \/ \E a \in Artifacts : Intrude(a)
<1> USE DEF diskVars, Finish, Leave, Goto, At
<1>1. ASSUME NEW t \in Publishers, Open(t) \/ Write(t) PROVE UNCHANGED final
  <2>1. own[t] \notin tied
    BY <1>1 DEF StorageInv, TiedUntouched, Open, Write
  <2> QED  BY <1>1, <2>1 DEF Open, Write, WritePayload
<1>2. ASSUME NEW t \in Publishers, Step(t), ~Link(t), ~(Open(t) \/ Write(t)) PROVE UNCHANGED final
  BY <1>2 DEF Step, Probe, Inspect, AllocateFails, Allocate, NameTaken, AllocateGivesUp, ShortWrite,
     PreparationFails, Verify, LinkFails, Contend, Clean, CleanFails
<1>3. ASSUME NEW t \in Publishers, Reject(t) \/ \E a \in Artifacts : Start(t, a) PROVE UNCHANGED final
  BY <1>3 DEF Reject, Start
<1>4. ASSUME NEW p \in Processes, Crash(p) PROVE UNCHANGED final
  BY <1>4 DEF Crash
<1>5. CASE UNCHANGED storageVars
  BY <1>5 DEF storageVars
<1> QED  BY <1>1, <1>2, <1>3, <1>4, <1>5 DEF StorageNext

(* What a reader once found under a final name is what every reader finds.  *)
THEOREM FinalsImmutable == StorageSpec => FinalIsImmutable
<1>1. ASSUME StorageInv, [StorageNext]_storageVars
      PROVE  [\A a \in Artifacts : final[a] # Nothing => final'[a] = final[a]]_storageVars
  <2>1. CASE UNCHANGED final
    BY <2>1
  <2>2. ASSUME NEW t \in Publishers, Link(t)
        PROVE  \A a \in Artifacts : final[a] # Nothing => final'[a] = final[a]
    BY <1>1, <2>2 DEF Link, Linkable, StorageInv, StorageTypeOK
  <2>3. ASSUME NEW b \in Artifacts, Intrude(b)
        PROVE  \A a \in Artifacts : final[a] # Nothing => final'[a] = final[a]
    BY <1>1, <2>3 DEF Intrude, StorageInv, StorageTypeOK
  <2> QED  BY <1>1, <2>1, <2>2, <2>3, FinalChangesInLink
<1> QED  BY <1>1, StorageInvariant, PTL DEF StorageSpec, FinalIsImmutable

(* A call returns success only when the artifact is under its final name,   *)
(* and a conflict only when it has met foreign bytes there.                 *)
THEOREM OutcomesTrue == StorageSpec => OutcomeIsTrue
<1>1. ASSUME StorageInv, [StorageNext]_storageVars PROVE [ReturnsAreTrue]_storageVars
  <2> USE <1>1 DEF StorageInv, StorageTypeOK, Goto, At, ReturnIsTrue
  <2>1. ASSUME NEW t \in Publishers, Step(t), NEW u \in Publishers PROVE ReturnIsTrue(u)
    <3>1. CASE Inspect(t)
      <4>1. final[artifact[t]] = "complete" \/ final[artifact[t]] \in ForeignFinals
        BY <3>1 DEF Inspect, CallsInOrder, FinalExists, FinalIsWhole, ForeignFinals
      <4> QED  BY <3>1, <4>1 DEF Inspect, Finish, Compared
    <3>2. CASE Clean(t) \/ CleanFails(t)
      BY <3>2 DEF Clean, CleanFails, Finish, VerdictsAreTrue
    <3>3. CASE Probe(t) \/ AllocateFails(t) \/ AllocateGivesUp(t)
      BY <3>3 DEF Probe, AllocateFails, AllocateGivesUp, Finish
    <3>4. CASE ~Inspect(t) /\ ~Clean(t) /\ ~CleanFails(t) /\ ~Probe(t) /\ ~AllocateFails(t) /\ ~AllocateGivesUp(t)
      BY <2>1, <3>4 DEF Step, Allocate, NameTaken, Open, Write, ShortWrite, PreparationFails, Verify, Link,
         LinkFails, Contend, Leave
    <3> QED  BY <3>1, <3>2, <3>3, <3>4
  <2>2. ASSUME NEW t \in Publishers, Reject(t) \/ \E a \in Artifacts : Start(t, a), NEW u \in Publishers
        PROVE  ReturnIsTrue(u)
    BY <2>2 DEF Reject, Start
  <2>3. ASSUME NEW p \in Processes, Crash(p), NEW u \in Publishers PROVE ReturnIsTrue(u)
    BY <2>3 DEF Crash
  <2>4. ASSUME NEW a \in Artifacts, Intrude(a), NEW u \in Publishers PROVE ReturnIsTrue(u)
    BY <2>4 DEF Intrude, publisherVars
  <2> HIDE DEF ReturnIsTrue
  <2> QED  BY <2>1, <2>2, <2>3, <2>4 DEF StorageNext, ReturnsAreTrue
<1> QED  BY <1>1, StorageInvariant, PTL DEF StorageSpec, OutcomeIsTrue

----------------------------------------------------------------------------
(***************************************************************************)
(* Publication implements WriteOnceStore.                                   *)
(***************************************************************************)

(* A call that returns answers, truthfully. *)
LEMMA FinishAnswers ==
    ASSUME StorageInv, NEW t \in Publishers, NEW verdict \in Outcomes \ {"none"},
           stage[t] # "idle", Finish(t, verdict), UNCHANGED final,
           verdict = "published" => final[artifact[t]] = "complete",
           verdict = "conflict" => final[artifact[t]] \in ForeignFinals
    PROVE  WriteOnce!StoreNext
<1>1. artifact[t] # Nothing
  BY DEF StorageInv, CallsInOrder
<1>2. artifact' = [artifact EXCEPT ![t] = Nothing]
  BY DEF Finish
<1>3. AnswerSeen' = [AnswerSeen EXCEPT ![t] = verdict]
  BY DEF Finish, Goto, AnswerSeen, StorageInv, StorageTypeOK
<1>4. WriteOnce!Answer(t, verdict)
  BY <1>1, <1>2, <1>3 DEF WriteOnce!Answer
<1> QED  BY <1>4 DEF WriteOnce!StoreNext, WriteOnce!Answers, Outcomes

(* A publisher that stays inside its call has shown its caller nothing new. *)
LEMMA InsideCall ==
    ASSUME StorageInv, NEW t \in Publishers, NEW s \in Stages \ {"idle"},
           stage[t] # "idle", Goto(t, s),
           \A u \in Publishers \ {t} : outcome'[u] = outcome[u]
    PROVE  AnswerSeen' = AnswerSeen
BY DEF Goto, AnswerSeen, StorageInv, StorageTypeOK

(* Leaving the block that owns the directory is still inside the call. *)
LEMMA LeaveInsideCall ==
    ASSUME StorageInv, NEW t \in Publishers, NEW verdict, stage[t] # "idle", Leave(t, verdict)
    PROVE  AnswerSeen' = AnswerSeen /\ artifact' = artifact
<1>1. \A u \in Publishers \ {t} : outcome'[u] = outcome[u]
  BY DEF Leave, StorageInv, StorageTypeOK
<1> QED  BY <1>1, InsideCall DEF Leave, Stages

(* Every step of publication is a step of the store, or none. *)
THEOREM StorageStepKeepsContract ==
    StorageInv /\ [StorageNext]_storageVars => [WriteOnce!StoreNext]_(WriteOnce!storeVars)
<1> SUFFICES ASSUME StorageInv, [StorageNext]_storageVars
             PROVE  WriteOnce!StoreNext \/ UNCHANGED WriteOnce!storeVars
  OBVIOUS
<1> USE DEF At
<1>1. ASSUME NEW t \in Publishers, Reject(t) PROVE WriteOnce!StoreNext
  <2>1. artifact[t] = Nothing /\ AnswerSeen' = [AnswerSeen EXCEPT ![t] = "failed"]
    BY <1>1 DEF Reject, AnswerSeen, StorageInv, StorageTypeOK, CallsInOrder
  <2> QED  BY <1>1, <2>1 DEF Reject, diskVars, WriteOnce!StoreNext, WriteOnce!Refuse
<1>2. ASSUME NEW t \in Publishers, NEW a \in Artifacts, Start(t, a) PROVE WriteOnce!StoreNext
  <2>1. artifact[t] = Nothing /\ AnswerSeen' = [AnswerSeen EXCEPT ![t] = "none"]
    BY <1>2 DEF Start, Goto, AnswerSeen, StorageInv, StorageTypeOK, CallsInOrder
  <2> QED  BY <1>2, <2>1 DEF Start, diskVars, WriteOnce!StoreNext, WriteOnce!Ask
<1>3. ASSUME NEW t \in Publishers,
             (Probe(t) /\ Finish(t, "failed")) \/ AllocateFails(t) \/ AllocateGivesUp(t)
      PROVE  WriteOnce!StoreNext
  BY <1>3, FinishAnswers DEF Probe, AllocateFails, AllocateGivesUp, diskVars, Outcomes
<1>4. ASSUME NEW t \in Publishers, Inspect(t) PROVE WriteOnce!StoreNext
  <2>1. PICK verdict \in {Compared(artifact[t]), "failed"} : Finish(t, verdict)
    BY <1>4 DEF Inspect
  <2>2. verdict = "conflict" => final[artifact[t]] \in ForeignFinals
    BY <1>4 DEF Inspect, Compared, FinalExists, ForeignFinals, StorageInv, StorageTypeOK, CallsInOrder,
          FinalIsWhole
  <2> QED  BY <1>4, <2>1, <2>2, FinishAnswers DEF Inspect, diskVars, Compared, Outcomes
<1>5. ASSUME NEW t \in Publishers, Clean(t) \/ CleanFails(t) PROVE WriteOnce!StoreNext
  <2>1. Finish(t, outcome[t]) /\ stage[t] = "clean" /\ UNCHANGED final
    BY <1>5 DEF Clean, CleanFails, diskVars
  <2> QED  BY <2>1, FinishAnswers DEF StorageInv, StorageTypeOK, CallsInOrder, VerdictsAreTrue
<1>6. ASSUME NEW t \in Publishers, Link(t) PROVE WriteOnce!StoreNext
  <2>1. AnswerSeen' = AnswerSeen /\ artifact' = artifact
    BY <1>6, LeaveInsideCall DEF Link
  <2>2. /\ artifact[t] \in Artifacts /\ final[artifact[t]] = Nothing
        /\ final' = [final EXCEPT ![artifact[t]] = "complete"]
    <3>1. /\ stage[t] = "link" /\ final[artifact[t]] = Nothing
          /\ final' = [final EXCEPT ![artifact[t]] = temp[own[t]]]
      BY <1>6 DEF Link, At, Linkable
    <3>2. artifact[t] \in Artifacts \cup {Nothing}
      BY DEF StorageInv, StorageTypeOK
    <3>3. artifact[t] # Nothing
      BY <3>1 DEF StorageInv, CallsInOrder
    <3>4. temp[own[t]] = "complete"
      BY <3>1 DEF StorageInv, TiedUntouched
    <3> QED
      BY ONLY <3>1, <3>2, <3>3, <3>4
  <2>3. WriteOnce!Store(artifact[t])
    BY <2>1, <2>2 DEF WriteOnce!Store
  <2> QED  BY <2>2, <2>3 DEF WriteOnce!StoreNext
<1>7. ASSUME NEW p \in Processes, Crash(p) PROVE WriteOnce!StoreNext
  <2> DEFINE dead == {t \in Publishers : t[1] = p}
  <2>1. AnswerSeen' = [t \in Publishers |-> IF t \in dead THEN "none" ELSE AnswerSeen[t]]
    BY <1>7 DEF Crash, AnswerSeen
  <2>2. WriteOnce!Die(dead)
    BY <1>7, <2>1 DEF Crash, diskVars, WriteOnce!Die
  <2> QED  BY <2>2 DEF WriteOnce!StoreNext
<1>8. ASSUME NEW t \in Publishers,
             (Probe(t) /\ ~Finish(t, "failed")) \/ Allocate(t) \/ NameTaken(t) \/ ShortWrite(t) \/ Verify(t) \/ LinkFails(t)
      PROVE  UNCHANGED WriteOnce!storeVars
  <2>1. UNCHANGED <<final, artifact, outcome>>
    BY <1>8 DEF Probe, Allocate, NameTaken, ShortWrite, Verify, LinkFails, diskVars
  <2>2. \E s \in Stages \ {"idle"} : stage[t] # "idle" /\ stage' = [stage EXCEPT ![t] = s]
    BY <1>8 DEF Probe, Allocate, NameTaken, ShortWrite, Verify, LinkFails, Goto, Stages, StorageInv, StorageTypeOK
  <2>3. AnswerSeen' = AnswerSeen
    BY <2>1, <2>2, InsideCall DEF Goto
  <2> QED  BY <2>1, <2>3 DEF WriteOnce!storeVars
<1>9. ASSUME NEW t \in Publishers, Open(t) \/ Write(t) PROVE UNCHANGED WriteOnce!storeVars
  <2>1. own[t] \notin tied
    BY <1>9 DEF StorageInv, TiedUntouched, Open, Write
  <2>2. UNCHANGED <<final, artifact, outcome>>
    BY <1>9, <2>1 DEF Open, Write, WritePayload
  <2>3. AnswerSeen' = AnswerSeen
    BY <1>9, <2>2, InsideCall DEF Open, Write, Stages
  <2> QED  BY <2>2, <2>3 DEF WriteOnce!storeVars
<1>10. ASSUME NEW t \in Publishers, PreparationFails(t) \/ Contend(t) PROVE UNCHANGED WriteOnce!storeVars
  <2>1. UNCHANGED final /\ stage[t] # "idle" /\ \E verdict \in Outcomes : Leave(t, verdict)
    BY <1>10 DEF PreparationFails, Contend, diskVars, Compared, Outcomes
  <2>2. AnswerSeen' = AnswerSeen /\ artifact' = artifact
    BY <2>1, LeaveInsideCall
  <2> QED  BY <2>1, <2>2 DEF WriteOnce!storeVars
<1>12. ASSUME NEW a \in Artifacts, Intrude(a) PROVE WriteOnce!StoreNext
  <2>1. WriteOnce!Intrude(a)
    BY <1>12 DEF Intrude, WriteOnce!Intrude, publisherVars, AnswerSeen
  <2> QED  BY <2>1 DEF WriteOnce!StoreNext
<1>11. CASE UNCHANGED storageVars
  BY <1>11 DEF storageVars, diskVars, publisherVars, WriteOnce!storeVars, AnswerSeen
<1> QED
  BY <1>1, <1>2, <1>3, <1>4, <1>5, <1>6, <1>7, <1>8, <1>9, <1>10, <1>11, <1>12 DEF StorageNext, Step

(* The detailed protocol implements the write-once store. *)
THEOREM StorageImplementsStore == StorageSpec => ImplementsStore
<1>1. StorageInit => WriteOnce!StoreInit
  BY DEF StorageInit, WriteOnce!StoreInit, AnswerSeen
<1> QED
  BY <1>1, StorageInvariant, StorageStepKeepsContract, PTL DEF StorageSpec, ImplementsStore, WriteOnce!StoreSpec
============================================================================
