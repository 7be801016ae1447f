------------------------ MODULE EpisodicEnvironment ------------------------
(***************************************************************************)
(* The episodic environment (src/src/environment/episodic_environment.cpp): *)
(* the public reset / step / interrupt facade over one EpisodeDriver.  It   *)
(* owns the driver, publishes each decision as a DecisionFrame with a fresh *)
(* submission token, accepts at most one action for it, and turns every     *)
(* end of an episode into one closure value.                                *)
(*                                                                          *)
(* A public call is a sequence of steps: the call itself, the steps of the  *)
(* driver under it, and the consumption of the boundary the driver reached. *)
(* The environment is single-threaded, so no second call starts meanwhile.  *)
(***************************************************************************)
EXTENDS EpisodeDriver, FiniteSets

CONSTANTS
    Specs,       \* episode specifications; the episode semantic ID is their hash
    TokenMax     \* stands for UINT64_MAX, the width of the two token counters

ASSUME EnvironmentAssumption ==
    /\ TokenMax \in Nat
    /\ None \notin Specs

VARIABLES
    state,                \* EpisodicEnvironment's public Lifecycle
    episode,              \* current_episode_id
    publicDecisionIndex,  \* public_decision_index
    incarnation,          \* episode_incarnation_counter
    generation,           \* frame_generation_counter
    frame,                \* current_frame
    bindings,             \* current_bindings: public key to internal key
    terminal,             \* the three optional closures
    interruption,
    failed,
    views,                \* players whose terminal view is set
    call,                 \* the public call in progress
    published,            \* history: every frame ever published
    transitions           \* history: the AcceptedActionTransitions, in order

closureVars == <<terminal, interruption, failed, views>>
counterVars == <<episode, publicDecisionIndex, incarnation, generation>>
frameVars == <<frame, bindings>>
historyVars == <<published, transitions>>
environmentVars == <<state, counterVars, frameVars, closureVars, call, historyVars>>
vars == <<driverVars, environmentVars>>

(* A public action key is a digest of the candidate's public descriptor:    *)
(* never the internal key, and different for different candidates (a frame  *)
(* with a collision is not published).                                      *)
PublicKey(k) == [public |-> k]

Tokens == [incarnation : Nat, generation : Nat]
DecisionIds == [episode : Specs, index : Nat, content : Requests]
Frames == [token : Tokens, episode : Specs, index : Nat, decision : DecisionIds,
           keys : SUBSET {PublicKey(k) : k \in Keys}]
Selections == [contract : BOOLEAN, episode : Specs, token : Tokens, decision : DecisionIds,
               key : {PublicKey(k) : k \in Keys}]
Transitions == [token : Tokens, index : Nat, submitted : BOOLEAN]
Reasons == {"ENGINE_PROCESS_BUDGET", "SEMANTIC_ACTION_BUDGET", "ADMINISTRATIVE_CANCEL"}

Terminals == [count : Nat, last : Nat \cup {None}]
Interruptions == [reason : Reasons, count : Nat, last : Nat \cup {None}, process : Nat]
Failures == [count : Nat, last : DecisionIds \cup {None}, mutation : BOOLEAN]

(* std::nullopt is none of the values it stands in for. *)
ASSUME AbsenceAssumption == None \notin Frames \cup Terminals \cup Interruptions \cup Failures

EnvironmentTypeOK ==
    /\ DriverTypeOK
    /\ state \in {"Empty", "AwaitingAction", "GameTerminal", "Interrupted", "Failed"}
    /\ episode \in Specs \cup {None}
    /\ publicDecisionIndex \in Nat
    /\ incarnation \in 0..TokenMax
    /\ generation \in 0..TokenMax
    /\ frame \in Frames \cup {None}
    /\ bindings \subseteq [public : {PublicKey(k) : k \in Keys}, semantic : Keys]
    /\ terminal \in Terminals \cup {None}
    /\ interruption \in Interruptions \cup {None}
    /\ failed \in Failures \cup {None}
    /\ views \subseteq {0, 1}
    /\ call \in {"idle", "reset", "step", "interrupt"}
    /\ published \subseteq Frames
    /\ transitions \in Seq(Transitions)

----------------------------------------------------------------------------
(* create: no episode and no driver yet. *)
EnvironmentInit ==
    /\ lifecycle = "Absent"
    /\ control \in Controls
    /\ host = FALSE
    /\ request = None
    /\ nextProcessIndex = 0
    /\ traceDecisionIndex = 0
    /\ trace = <<>>
    /\ metrics = NoMetrics
    /\ failure = NoFailure
    /\ accepted = "none"
    /\ engine = "running"
    /\ processed = 0
    /\ responded = 0
    /\ state = "Empty"
    /\ episode = None
    /\ publicDecisionIndex = 0
    /\ incarnation = 0
    /\ generation = 0
    /\ frame = None
    /\ bindings = {}
    /\ terminal = None
    /\ interruption = None
    /\ failed = None
    /\ views = {}
    /\ call = "idle"
    /\ published = {}
    /\ transitions = <<>>

DriverPresent == lifecycle # "Absent"
Live == state = "AwaitingAction" /\ frame # None /\ DriverPresent

----------------------------------------------------------------------------
(* Closing an episode: the driver is destroyed, exactly one closure is set. *)

ReleaseFrame == frame' = None /\ bindings' = {}

LastDecision == IF frame # None THEN frame.decision ELSE None
LastIndex == IF frame # None THEN frame.index ELSE None

(* Mutant: a failure never admits that the engine may have moved. *)
FailureWithoutMutation(mutation) ==
    [count    |-> IF DriverPresent THEN metrics.semantic ELSE 0,
     last     |-> IF DriverPresent THEN LastDecision ELSE None,
     mutation |-> FALSE]

(* make_failure reads the driver and the frame before they are released. *)
FailureOf(mutation) ==
    [count    |-> IF DriverPresent THEN metrics.semantic ELSE 0,
     last     |-> IF DriverPresent THEN LastDecision ELSE None,
     mutation |-> mutation]

CloseFailure(closure) ==
    /\ failed' = closure
    /\ terminal' = None
    /\ interruption' = None
    /\ views' = {}
    /\ ReleaseFrame
    /\ state' = "Failed"

(* Mutant: the closure takes its count from the public decision index. *)
CloseInterruptedByIndex(reason) ==
    /\ interruption' = [reason |-> reason, count |-> publicDecisionIndex, last |-> LastIndex,
                        process |-> metrics.process]
    /\ terminal' = None
    /\ failed' = None
    /\ views' = {}
    /\ ReleaseFrame
    /\ state' = "Interrupted"

CloseInterrupted(reason) ==
    /\ interruption' = [reason |-> reason, count |-> metrics.semantic, last |-> LastIndex,
                        process |-> metrics.process]
    /\ terminal' = None
    /\ failed' = None
    /\ views' = {}
    /\ ReleaseFrame
    /\ state' = "Interrupted"

----------------------------------------------------------------------------
(* reset *)

(* Mutant: a reset may abandon the episode that awaits an action. *)
ResetVerdictAnytime(well_formed, certified) ==
    IF ~well_formed THEN "InvalidRequest"
    ELSE IF incarnation = TokenMax THEN "TokenNamespaceExhausted"
    ELSE IF ~certified THEN "ResourceIdentityMismatch"
    ELSE "Accepted"

(* well_formed: contract, cancellation reason, player, seats and budgets;   *)
(* certified: the resources still have the identity they were loaded with.  *)
ResetVerdict(well_formed, certified) ==
    IF state = "AwaitingAction" THEN "ResetWhileAwaitingAction"
    ELSE IF ~well_formed THEN "InvalidRequest"
    ELSE IF incarnation = TokenMax THEN "TokenNamespaceExhausted"
    ELSE IF ~certified THEN "ResourceIdentityMismatch"
    ELSE "Accepted"

ResetRejected(well_formed, certified) ==
    /\ call = "idle"
    /\ ResetVerdict(well_formed, certified) # "Accepted"
    /\ UNCHANGED vars

BeginEpisode(s) ==
    /\ call = "idle"
    /\ ResetVerdict(TRUE, TRUE) = "Accepted"
    /\ incarnation' = incarnation + 1
    /\ episode' = s
    /\ publicDecisionIndex' = 0
    /\ UNCHANGED <<generation, historyVars>>

ResetAccepted(s, c) ==
    /\ BeginEpisode(s)
    /\ Construct(c)
    /\ frame' = None
    /\ terminal' = None
    /\ interruption' = None
    /\ failed' = None
    /\ views' = {}
    /\ call' = "reset"
    /\ UNCHANGED <<state, bindings>>

(* The constructor throws: no driver, yet an accepted reset that failed. *)
ResetConstructionFails(s) ==
    /\ BeginEpisode(s)
    /\ ConstructThrows
    /\ CloseFailure([count |-> 0, last |-> None, mutation |-> TRUE])
    /\ UNCHANGED call

----------------------------------------------------------------------------
(* step *)

Resolved(key) == {b \in bindings : b.public = key}

(* Mutant: the decision ID is trusted to tell frames apart. *)
StepVerdictWithoutToken(sel) ==
    IF ~sel.contract THEN "IncompatibleContract"
    ELSE IF ~Live THEN "InvalidLifecycle"
    ELSE IF sel.episode # frame.episode THEN "WrongEpisode"
    ELSE IF sel.decision # frame.decision THEN "WrongPublicSemanticDecision"
    ELSE IF sel.key \notin frame.keys THEN "UnknownPublicActionKey"
    ELSE "Accepted"

(* The checks in the order of the code; the first that fails names the      *)
(* rejection.                                                               *)
StepVerdict(sel) ==
    IF ~sel.contract THEN "IncompatibleContract"
    ELSE IF ~Live THEN "InvalidLifecycle"
    ELSE IF sel.episode # frame.episode THEN "WrongEpisode"
    ELSE IF sel.token # frame.token THEN "StaleSubmissionToken"
    ELSE IF sel.decision # frame.decision THEN "WrongPublicSemanticDecision"
    ELSE IF sel.key \notin frame.keys THEN "UnknownPublicActionKey"
    ELSE IF Cardinality(bindings) # Cardinality(frame.keys) \/ Resolved(sel.key) = {}
         THEN "PublicActionDomainDivergence"
    ELSE "Accepted"

StepRejected(sel) ==
    /\ call = "idle"
    /\ StepVerdict(sel) # "Accepted"
    /\ UNCHANGED vars

StepAccepted(sel) ==
    /\ call = "idle"
    /\ StepVerdict(sel) = "Accepted"
    /\ \E b \in Resolved(sel.key) : ApplyStep(b.semantic)
    /\ call' = "step"
    /\ transitions' = Append(transitions, [token |-> frame.token, index |-> frame.index,
                                           submitted |-> accepted' = "submitted"])
    /\ UNCHANGED <<state, counterVars, frameVars, closureVars, published>>

----------------------------------------------------------------------------
(* interrupt *)

InterruptVerdict(contract, administrative) ==
    IF ~contract THEN "IncompatibleContract"
    ELSE IF ~Live THEN "InvalidLifecycle"
    ELSE IF ~administrative THEN "UnsupportedInterruptionReason"
    ELSE "Accepted"

InterruptRejected(contract, administrative) ==
    /\ call = "idle"
    /\ InterruptVerdict(contract, administrative) # "Accepted"
    /\ UNCHANGED vars

InterruptAccepted ==
    /\ call = "idle"
    /\ InterruptVerdict(TRUE, TRUE) = "Accepted"
    /\ AdministrativeInterrupt
    /\ call' = "interrupt"
    /\ UNCHANGED <<state, counterVars, frameVars, closureVars, historyVars>>

----------------------------------------------------------------------------
(* The driver under a call, then consume_boundary. *)

DriverAdvances ==
    /\ call # "idle"
    /\ AdvanceStep
    /\ UNCHANGED environmentVars

Consume(boundary) ==
    /\ call # "idle"
    /\ lifecycle = boundary
    /\ call' = "idle"

NextIndex == IF call = "step" THEN frame.index + 1 ELSE 0

FrameFor(r, i) ==
    [token    |-> [incarnation |-> incarnation, generation |-> generation + 1],
     episode  |-> episode,
     index    |-> i,
     decision |-> [episode |-> episode, index |-> i, content |-> r],
     keys     |-> {PublicKey(k) : k \in Candidates(r)}]

BindingsFor(r) == {[public |-> PublicKey(k), semantic |-> k] : k \in Candidates(r)}

GenerationLeft == generation < TokenMax

FramePublished ==
    /\ Consume("AwaitingDecision")
    /\ GenerationLeft
    /\ generation' = generation + 1
    /\ publicDecisionIndex' = NextIndex
    /\ frame' = FrameFor(request, NextIndex)
    /\ bindings' = BindingsFor(request)
    /\ published' = published \cup {frame'}
    /\ state' = "AwaitingAction"
    /\ terminal' = None
    /\ interruption' = None
    /\ failed' = None
    /\ UNCHANGED <<driverVars, episode, incarnation, views, transitions>>

(* A check on the boundary throws.  After an accepted action the engine may *)
(* have moved; in a reset that depends on which exception it is.            *)
CloseUnpublishable ==
    /\ \E mutation \in BOOLEAN :
        /\ call = "step" => mutation
        /\ CloseFailure(FailureOf(mutation))
    /\ Destroy
    /\ UNCHANGED <<counterVars, historyVars>>

(* A projection check fails, or the generation counter is used up. *)
FrameNotPublishable == Consume("AwaitingDecision") /\ CloseUnpublishable

TerminalReached ==
    /\ Consume("Terminal")
    /\ terminal' = [count |-> metrics.semantic, last |-> LastIndex]
    /\ interruption' = None
    /\ failed' = None
    /\ views' = {0, 1}
    /\ ReleaseFrame
    /\ state' = "GameTerminal"
    /\ Destroy
    /\ UNCHANGED <<counterVars, historyVars>>

(* A terminal observation or view fails validation: views are taken back. *)
TerminalNotPublishable == Consume("Terminal") /\ CloseUnpublishable

(* Mutant: an exhausted semantic budget is not recognised as a boundary. *)
ProcessInterruptionReached ==
    /\ \/ Consume("BudgetExhausted") /\ CloseInterrupted("ENGINE_PROCESS_BUDGET")
       \/ Consume("Interrupted") /\ CloseInterrupted("ADMINISTRATIVE_CANCEL")
    /\ Destroy
    /\ UNCHANGED <<counterVars, historyVars>>

InterruptionReached ==
    /\ \/ Consume("BudgetExhausted") /\ CloseInterrupted("ENGINE_PROCESS_BUDGET")
       \/ Consume("SemanticBudgetExhausted") /\ CloseInterrupted("SEMANTIC_ACTION_BUDGET")
       \/ Consume("Interrupted") /\ CloseInterrupted("ADMINISTRATIVE_CANCEL")
    /\ Destroy
    /\ UNCHANGED <<counterVars, historyVars>>

FailureReached ==
    /\ Consume("Failed")
    /\ CloseFailure(FailureOf(call = "step" \/ failure.mutation))
    /\ Destroy
    /\ UNCHANGED <<counterVars, historyVars>>

ConsumeBoundary ==
    \/ FramePublished
    \/ FrameNotPublishable
    \/ TerminalReached
    \/ TerminalNotPublishable
    \/ InterruptionReached
    \/ FailureReached

----------------------------------------------------------------------------
(* What a caller may submit: any mixture of the values it has been shown. *)
SubmittedSelections ==
    [contract : BOOLEAN,
     episode  : Specs,
     token    : {f.token : f \in published},
     decision : {f.decision : f \in published},
     key      : {PublicKey(k) : k \in Keys}]

EnvironmentNext ==
    \/ \E well_formed, certified \in BOOLEAN : ResetRejected(well_formed, certified)
    \/ \E s \in Specs, c \in Controls : ResetAccepted(s, c)
    \/ \E s \in Specs : ResetConstructionFails(s)
    \/ \E sel \in SubmittedSelections : StepRejected(sel) \/ StepAccepted(sel)
    \/ \E contract, administrative \in BOOLEAN : InterruptRejected(contract, administrative)
    \/ InterruptAccepted
    \/ DriverAdvances
    \/ ConsumeBoundary

(* A call that has started runs to its return; callers owe nothing. *)
EnvironmentFairness == WF_vars(DriverAdvances) /\ WF_vars(ConsumeBoundary)

EnvironmentSpec == EnvironmentInit /\ [][EnvironmentNext]_vars /\ EnvironmentFairness

----------------------------------------------------------------------------
(***************************************************************************)
(* Properties.                                                              *)
(***************************************************************************)

(* The accepted actions of the current episode. *)
EpisodeTransitions ==
    {i \in DOMAIN transitions : transitions[i].token.incarnation = incarnation}

(* Between calls the facade and the driver agree: an action is awaited by   *)
(* both or by neither, what the frame offers is what the driver would take, *)
(* and no duel is left alive under a closed or empty environment.           *)
FacadeMatchesDriver ==
    call = "idle" =>
        /\ (state = "AwaitingAction") = (frame # None)
        /\ (state = "AwaitingAction") = (lifecycle = "AwaitingDecision")
        /\ (state = "AwaitingAction") = host
        /\ state = "AwaitingAction" =>
            /\ frame.keys = {PublicKey(k) : k \in Candidates(request)}
            /\ \A key \in frame.keys : Cardinality(Resolved(key)) = 1
            /\ \A b \in bindings : b.semantic \in Candidates(request)

(* Between calls exactly the closure that belongs to the public state is    *)
(* set, and terminal views exist exactly after a game terminal.             *)
OneClosure ==
    call = "idle" =>
        /\ (state = "GameTerminal") = (terminal # None)
        /\ (state = "Interrupted") = (interruption # None)
        /\ (state = "Failed") = (failed # None)
        /\ views = IF state = "GameTerminal" THEN {0, 1} ELSE {}

(* A token is issued once in the life of an environment, also when the same *)
(* episode is reset again and its frames have the same decision IDs.        *)
TokensNeverReissued ==
    [][frame' \notin {frame, None} => \A f \in published : f.token # frame'.token]_vars

(* No published frame is ever answered by two accepted actions. *)
AtMostOneActionPerFrame ==
    \A i, j \in DOMAIN transitions : transitions[i].token = transitions[j].token => i = j

(* A selection taken from any frame but the current one is rejected, and if *)
(* nothing but the token tells the two apart, as a stale token.             *)
StaleSelectionsRejected ==
    call = "idle" => \A f \in published : f # frame => \A key \in f.keys :
        LET verdict == StepVerdict([contract |-> TRUE, episode |-> f.episode, token |-> f.token,
                                    decision |-> f.decision, key |-> key])
        IN /\ verdict # "Accepted"
           /\ (Live /\ f.decision = frame.decision) => verdict = "StaleSubmissionToken"

(* A closure reports every accepted action of its episode: exactly, except  *)
(* that a failure may miss the one action that failed.  The last decision   *)
(* index is absent exactly when no frame was ever published.                *)
ClosureCountsActions ==
    LET accepted_actions == Cardinality(EpisodeTransitions)
    IN  call = "idle" =>
        /\ terminal # None =>
            /\ terminal.count = accepted_actions
            /\ terminal.last = IF accepted_actions = 0 THEN None ELSE accepted_actions - 1
        /\ interruption # None =>
            /\ interruption.count = accepted_actions
            /\ interruption.process = processed
            /\ interruption.reason = "ADMINISTRATIVE_CANCEL" => interruption.last = accepted_actions
        /\ failed # None => failed.count \in {accepted_actions - 1, accepted_actions}

(* The engine has received exactly the responses that accepted transitions  *)
(* reported, plus at most one in an episode that failed and says that the   *)
(* engine may have moved.                                                   *)
ResponsesReported ==
    LET reported == Cardinality({i \in EpisodeTransitions : transitions[i].submitted})
    IN  /\ responded \in {reported, reported + 1}
        /\ (responded # reported /\ call = "idle") => (failed # None /\ failed.mutation)

(* The caller's view: a call in progress is "working", the current frame is *)
(* the offer, and a frame is answered once its transition is recorded.      *)
PhaseSeen ==
    IF call # "idle" THEN "working"
    ELSE IF state = "Empty" THEN "empty"
    ELSE IF state = "AwaitingAction" THEN "offering"
    ELSE state
OfferSeen == IF call = "idle" /\ frame # None THEN frame.token ELSE None
OfferedSeen == {f.token : f \in published}
AnsweredSeen == [i \in DOMAIN transitions |-> transitions[i].token]

Contract == INSTANCE EpisodeContract WITH
    Token    <- [incarnation : 0..TokenMax, generation : 0..TokenMax],
    Ending   <- {"GameTerminal", "Interrupted", "Failed"},
    NoOffer  <- None,
    phase    <- PhaseSeen,
    offer    <- OfferSeen,
    offered  <- OfferedSeen,
    answered <- AnsweredSeen

(* The environment keeps the contract, whatever the driver does under it:   *)
(* every step is a step of EpisodeContract or changes nothing a caller sees. *)
ImplementsContract == Contract!Safety

(* And every public call returns with an offer or an ending. *)
PublicCallReturns == Contract!CallsReturn

============================================================================
