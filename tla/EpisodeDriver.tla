--------------------------- MODULE EpisodeDriver ---------------------------
(***************************************************************************)
(* The shared episode driver (src/src/environment/episode_driver.cpp): one  *)
(* duel, driven from one decision boundary to the next.  The driver calls   *)
(* OCG_DuelProcess in a loop until the engine asks for a decision or ends,  *)
(* publishes the decision, and turns the selected candidate into either a   *)
(* continuation step (no engine call at all) or exactly one engine          *)
(* response followed by another run of the loop.                            *)
(*                                                                          *)
(* A call of the driver is not one step here: every engine call inside it   *)
(* is a step of its own, so each property also holds in the middle of a     *)
(* call, when an exception may leave it.                                    *)
(***************************************************************************)
EXTENDS Integers, Sequences

CONSTANTS
    Keys,             \* semantic keys a request may offer
    ProcessBudgets,   \* values of EpisodeDriverConfig::engine_process_budget
    SemanticBudgets,  \* values of EpisodeDriverConfig::semantic_action_budget
    MaxIndex,         \* stands for UINT32_MAX, the width of the trace indices
    None              \* std::nullopt

(***************************************************************************)
(* DecisionRequest, reduced to what decides control: whether it is a step   *)
(* of a continuation, and which candidates end it with an engine response   *)
(* (finals) or only refine the partial selection (picks).                   *)
(***************************************************************************)
Requests ==
    {r \in [continuation : BOOLEAN, picks : SUBSET Keys, finals : SUBSET Keys] :
        /\ r.picks \cap r.finals = {}
        /\ r.picks \cup r.finals # {}
        /\ ~r.continuation => r.picks = {}}

Candidates(r) == r.picks \cup r.finals

ASSUME DriverAssumption ==
    /\ ProcessBudgets \subseteq Nat \ {0}
    /\ SemanticBudgets \subseteq Nat \ {0}
    /\ MaxIndex \in Nat
    /\ None \notin Requests

VARIABLES
    lifecycle,           \* EpisodeDriver::Impl::Lifecycle, "Absent" without a driver
    control,             \* the two budgets of the configuration
    host,                \* TRUE while the CoreHost and its duel exist
    request,             \* current_request
    nextProcessIndex,    \* next_process_index
    traceDecisionIndex,  \* trace_decision_index
    trace,               \* trace_state.steps
    metrics,             \* driver_metrics, as callers read them
    failure,             \* stage and mutation flag of the last DriverFailure
    accepted,            \* DriverAcceptedAction of the call in progress
    engine,              \* what the rules engine does: running, waiting, over
    processed,           \* CoreHost::process_call_count_
    responded            \* CoreHost::response_submission_count_

driverVars == <<lifecycle, control, host, request, nextProcessIndex, traceDecisionIndex,
                trace, metrics, failure, accepted, engine, processed, responded>>

ClosedLifecycles == {"Terminal", "BudgetExhausted", "SemanticBudgetExhausted",
                     "Interrupted", "Failed"}
Controls == [process : ProcessBudgets, semantic : SemanticBudgets]
Metrics == [process : Nat, response : Nat, semantic : Nat, interactive : Nat,
            intermediate : Nat]
TraceSteps == [index : Nat, engine_step : Nat, responds : BOOLEAN, terminal : BOOLEAN]
DriverFailures == [stage : {"none", "advance", "action"}, mutation : BOOLEAN]
NoFailure == [stage |-> "none", mutation |-> FALSE]
NoMetrics == [process |-> 0, response |-> 0, semantic |-> 0, interactive |-> 0,
              intermediate |-> 0]

DriverTypeOK ==
    /\ lifecycle \in {"Absent", "Advancing", "AwaitingDecision"} \cup ClosedLifecycles
    /\ control \in Controls
    /\ host \in BOOLEAN
    /\ request \in Requests \cup {None}
    /\ nextProcessIndex \in Nat
    /\ traceDecisionIndex \in 0..MaxIndex
    /\ trace \in Seq(TraceSteps)
    /\ metrics \in Metrics
    /\ failure \in DriverFailures
    /\ accepted \in {"none", "unsubmitted", "submitted"}
    /\ engine \in {"running", "waiting", "over"}
    /\ processed \in Nat
    /\ responded \in Nat

----------------------------------------------------------------------------
(* The constructor: a fresh duel, empty trace, no metrics.  The caller      *)
(* calls advance_until_boundary next, so the loop is entered at once.       *)
DriverInit ==
    /\ lifecycle = "Advancing"
    /\ control \in Controls
    /\ host = TRUE
    /\ request = None
    /\ nextProcessIndex = 0
    /\ traceDecisionIndex = 0
    /\ trace = <<>>
    /\ metrics = NoMetrics
    /\ failure = NoFailure
    /\ accepted = "none"
    /\ engine = "running"
    /\ processed = 0
    /\ responded = 0

(* The same as steps, for a caller that builds one driver after another. *)
NothingHappenedYet ==
    /\ request' = None
    /\ nextProcessIndex' = 0
    /\ traceDecisionIndex' = 0
    /\ trace' = <<>>
    /\ metrics' = NoMetrics
    /\ failure' = NoFailure
    /\ accepted' = "none"
    /\ engine' = "running"
    /\ processed' = 0
    /\ responded' = 0

Construct(c) ==
    /\ lifecycle' = "Advancing"
    /\ control' = c
    /\ host' = TRUE
    /\ NothingHappenedYet

(* The constructor of the driver or of its CoreHost throws and cleans up. *)
ConstructThrows ==
    /\ lifecycle' = "Absent"
    /\ host' = FALSE
    /\ NothingHappenedYet
    /\ UNCHANGED control

(* The destructor.  Counters and trace keep their last value here so that   *)
(* what a caller was told can still be compared with what happened.         *)
Destroy ==
    /\ lifecycle' = "Absent"
    /\ host' = FALSE
    /\ request' = None
    /\ UNCHANGED <<control, nextProcessIndex, traceDecisionIndex, trace, metrics, failure,
                   accepted, engine, processed, responded>>

(* refresh_host_metrics: the counters a caller reads are copies. *)
Refreshed(m) == [m EXCEPT !.process = processed', !.response = responded']

(* close_with_failure: counters are copied first, then the host is dropped. *)
CloseWithFailure(m, stage, mutation) ==
    /\ failure' = [stage |-> stage, mutation |-> mutation]
    /\ metrics' = Refreshed(m)
    /\ request' = None
    /\ lifecycle' = "Failed"
    /\ host' = FALSE

(* A closing boundary that keeps the duel until the driver is destroyed. *)
CloseAt(closed) ==
    /\ lifecycle' = closed
    /\ request' = None
    /\ metrics' = Refreshed(metrics)
    /\ UNCHANGED <<host, failure>>

----------------------------------------------------------------------------
(* advance_until_boundary, one iteration of its loop per step. *)

WithinProcessBudget == nextProcessIndex < control.process

CallProcess ==
    /\ lifecycle = "Advancing"
    /\ WithinProcessBudget
    /\ nextProcessIndex <= MaxIndex
    /\ processed' = processed + 1
    /\ UNCHANGED <<control, responded, accepted>>

(* CoreHost::process throws after it has counted the call. *)
ProcessThrows ==
    /\ CallProcess
    /\ CloseWithFailure(metrics, "advance", FALSE)
    /\ UNCHANGED <<nextProcessIndex, traceDecisionIndex, trace, engine>>

ReceiveMessage ==
    /\ CallProcess
    /\ nextProcessIndex' = nextProcessIndex + 1

(* The message is malformed or unsupported, is MSG_RETRY, carries more than *)
(* one decision, or an observation session refuses it.                      *)
MessageRefused ==
    /\ ReceiveMessage
    /\ CloseWithFailure(metrics, "advance", FALSE)
    /\ UNCHANGED <<traceDecisionIndex, trace, engine>>

(* The message asks for nothing: the loop goes on. *)
MessageWithoutDecision ==
    /\ ReceiveMessage
    /\ UNCHANGED <<lifecycle, host, request, traceDecisionIndex, trace, metrics, failure, engine>>

(* append_terminal: the index moves before the parts that may throw. *)
TakeTerminalIndex ==
    /\ ReceiveMessage
    /\ engine' = "over"
    /\ traceDecisionIndex' = (traceDecisionIndex + 1) % (MaxIndex + 1)

MessageTerminal ==
    /\ TakeTerminalIndex
    /\ trace' = Append(trace, [index |-> traceDecisionIndex, engine_step |-> nextProcessIndex,
                               responds |-> FALSE, terminal |-> TRUE])
    /\ CloseAt("Terminal")

MessageTerminalFails ==
    /\ TakeTerminalIndex
    /\ CloseWithFailure(metrics, "advance", FALSE)
    /\ UNCHANGED trace

(* A decision arrives.  The semantic budget is tested before it is counted. *)
MessageDecision ==
    /\ ReceiveMessage
    /\ engine' = "waiting"
    /\ UNCHANGED <<traceDecisionIndex, trace>>

SemanticBudgetSpent(count) == count >= control.semantic

DecisionOverBudget ==
    /\ MessageDecision
    /\ SemanticBudgetSpent(metrics.semantic)
    /\ CloseAt("SemanticBudgetExhausted")

CountInteractive == [metrics EXCEPT !.interactive = @ + 1]

(* publish_current_request succeeds for the decoded request. *)
DecisionPublished(r) ==
    /\ MessageDecision
    /\ ~SemanticBudgetSpent(metrics.semantic)
    /\ request' = r
    /\ lifecycle' = "AwaitingDecision"
    /\ metrics' = Refreshed(CountInteractive)
    /\ UNCHANGED <<host, failure>>

(* Candidate validation, the observation or its consistency check fails. *)
DecisionUnpublishable ==
    /\ MessageDecision
    /\ ~SemanticBudgetSpent(metrics.semantic)
    /\ CloseWithFailure(CountInteractive, "advance", FALSE)

(* The loop condition fails before a call. *)
ProcessBudgetSpent ==
    /\ lifecycle = "Advancing"
    /\ ~WithinProcessBudget
    /\ UNCHANGED <<control, nextProcessIndex, traceDecisionIndex, trace, accepted, engine,
                   processed, responded>>
    /\ CloseAt("BudgetExhausted")

ProcessIndexOverflow ==
    /\ lifecycle = "Advancing"
    /\ WithinProcessBudget
    /\ nextProcessIndex > MaxIndex
    /\ UNCHANGED <<control, nextProcessIndex, traceDecisionIndex, trace, accepted, engine,
                   processed, responded>>
    /\ CloseWithFailure(metrics, "advance", FALSE)

AdvanceStep ==
    \/ ProcessThrows
    \/ MessageRefused
    \/ MessageWithoutDecision
    \/ MessageTerminal
    \/ MessageTerminalFails
    \/ DecisionOverBudget
    \/ \E r \in Requests : DecisionPublished(r)
    \/ DecisionUnpublishable
    \/ ProcessBudgetSpent
    \/ ProcessIndexOverflow

----------------------------------------------------------------------------
(* apply_semantic_key *)

Selecting(k) ==
    /\ lifecycle = "AwaitingDecision"
    /\ request # None
    /\ host
    /\ k \in Candidates(request)
    /\ UNCHANGED <<control, nextProcessIndex, processed>>

TraceIndexLeft == traceDecisionIndex < MaxIndex

(* The trace index is used up; or, before the action is counted, the        *)
(* continuation transition or the public-state hash throws.                 *)
ApplyFailsUncounted(k) ==
    /\ Selecting(k)
    /\ accepted' = "unsubmitted"
    /\ UNCHANGED <<traceDecisionIndex, trace, engine, responded>>
    /\ CloseWithFailure(metrics, IF TraceIndexLeft THEN "advance" ELSE "action", FALSE)

(* Mutant: the step is stamped with the process call that comes next. *)
CommitStepLate(responds) ==
    /\ TraceIndexLeft
    /\ trace' = Append(trace, [index |-> traceDecisionIndex, engine_step |-> nextProcessIndex,
                               responds |-> responds, terminal |-> FALSE])
    /\ traceDecisionIndex' = traceDecisionIndex + 1

(* The trace step is committed and the action counted. *)
CommitStep(responds) ==
    /\ TraceIndexLeft
    /\ trace' = Append(trace, [index |-> traceDecisionIndex,
                               engine_step |-> nextProcessIndex - 1,
                               responds |-> responds, terminal |-> FALSE])
    /\ traceDecisionIndex' = traceDecisionIndex + 1

Counted == [metrics EXCEPT !.semantic = @ + 1]

CountedPick == [Counted EXCEPT !.intermediate = @ + 1]

(* An intermediate continuation action never reaches the engine. *)
ApplyPick(k) ==
    /\ Selecting(k)
    /\ k \in request.picks
    /\ CommitStep(FALSE)
    /\ accepted' = "unsubmitted"
    /\ UNCHANGED <<engine, responded>>

PickPublished(k, r) ==
    /\ ApplyPick(k)
    /\ ~SemanticBudgetSpent(Counted.semantic)
    /\ r.continuation
    /\ request' = r
    /\ lifecycle' = "AwaitingDecision"
    /\ metrics' = Refreshed(CountedPick)
    /\ UNCHANGED <<host, failure>>

PickUnpublishable(k) ==
    /\ ApplyPick(k)
    /\ ~SemanticBudgetSpent(Counted.semantic)
    /\ CloseWithFailure(CountedPick, "advance", FALSE)

PickOverBudget(k) ==
    /\ ApplyPick(k)
    /\ SemanticBudgetSpent(Counted.semantic)
    /\ request' = None
    /\ lifecycle' = "SemanticBudgetExhausted"
    /\ metrics' = Refreshed(CountedPick)
    /\ UNCHANGED <<host, failure>>

(* An atomic action or the end of a continuation: the step is in the trace  *)
(* before CoreHost::submit_response runs.                                   *)
ApplyFinal(k) ==
    /\ Selecting(k)
    /\ k \in request.finals
    /\ CommitStep(TRUE)
    /\ responded' = responded + 1
    /\ engine' = "running"

ResponseSubmitted(k) ==
    /\ ApplyFinal(k)
    /\ accepted' = "submitted"
    /\ request' = None
    /\ lifecycle' = "Advancing"
    /\ metrics' = Refreshed(Counted)
    /\ UNCHANGED <<host, failure>>

(* submit_response throws after OCG_DuelSetResponse: the engine has the     *)
(* response, the caller is told that it may have.                           *)
ResponseInconsistent(k) ==
    /\ ApplyFinal(k)
    /\ accepted' = "unsubmitted"
    /\ CloseWithFailure(Counted, "action", TRUE)

ApplyStep(k) ==
    \/ ApplyFailsUncounted(k)
    \/ \E r \in Requests : PickPublished(k, r)
    \/ PickUnpublishable(k)
    \/ PickOverBudget(k)
    \/ ResponseSubmitted(k)
    \/ ResponseInconsistent(k)

(* administrative_interrupt *)
AdministrativeInterrupt ==
    /\ lifecycle = "AwaitingDecision"
    /\ request # None
    /\ host
    /\ request' = None
    /\ lifecycle' = "Interrupted"
    /\ host' = FALSE
    /\ UNCHANGED <<control, nextProcessIndex, traceDecisionIndex, trace, failure, accepted,
                   engine, processed, responded>>
    /\ metrics' = Refreshed(metrics)

----------------------------------------------------------------------------
DriverNext ==
    \/ AdvanceStep
    \/ \E k \in Keys : ApplyStep(k)
    \/ AdministrativeInterrupt

(* A call in progress runs to its end: the loop is straight-line code of    *)
(* one thread, and the engine call inside it returns.  Nothing obliges a    *)
(* caller to apply an action or to interrupt.                               *)
DriverSpec == DriverInit /\ [][DriverNext]_driverVars /\ WF_driverVars(AdvanceStep)

----------------------------------------------------------------------------
(***************************************************************************)
(* Properties.                                                              *)
(***************************************************************************)

(* Four counters kept in three places agree after every step: an accepted   *)
(* action is either a continuation step or a response the engine has taken  *)
(* (also when submit_response threw), each has its trace step, and a        *)
(* decision of the engine is open exactly while one is awaited.             *)
ActionAccounting ==
    /\ metrics.semantic = metrics.intermediate + responded
    /\ Len(trace) = metrics.semantic + (IF lifecycle = "Terminal" THEN 1 ELSE 0)
    /\ lifecycle = "Advancing" => metrics.interactive = responded
    /\ lifecycle = "AwaitingDecision" => metrics.interactive = responded + 1

(* The trace is contiguous and tells engine time apart from decision time:  *)
(* the engine step moves after a step that responded and only then, and     *)
(* nothing follows the terminal step.                                       *)
TraceFaithful ==
    /\ \A i \in 1..Len(trace) : trace[i].index = i - 1
    /\ \A i \in 1..(Len(trace) - 1) :
        /\ ~trace[i].terminal
        /\ IF trace[i].responds THEN trace[i].engine_step < trace[i + 1].engine_step
                                ELSE trace[i].engine_step = trace[i + 1].engine_step

(* Neither budget is ever exceeded, and an awaited decision can always      *)
(* still be answered within the semantic budget.                            *)
BudgetsRespected ==
    /\ processed <= control.process
    /\ metrics.semantic <= control.semantic
    /\ lifecycle = "AwaitingDecision" => metrics.semantic < control.semantic

(* Whatever boundary a call returns, the counters it reports are those of   *)
(* the engine at that moment, although close_with_failure and the interrupt *)
(* have destroyed the host that owned them.                                 *)
MetricsExactAtBoundary ==
    lifecycle \in {"AwaitingDecision"} \cup ClosedLifecycles =>
        /\ metrics.process = processed
        /\ metrics.response = responded

(* The engine is processed only when it does not wait for a response, gets  *)
(* a response only while it waits for one, never both in one step, and is   *)
(* never touched once the host is gone.                                     *)
EngineInTurn ==
    [][/\ processed' # processed => engine = "running" /\ host
       /\ responded' # responded => engine = "waiting" /\ host /\ responded' = responded + 1
       /\ processed' = processed \/ responded' = responded]_driverVars

============================================================================
