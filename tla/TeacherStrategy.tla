--------------------------- MODULE TeacherStrategy ---------------------------
(***************************************************************************)
(* How the deterministic teacher decides (src/src/teacher): a profile of    *)
(* goals, lines of nodes that serve a goal, and recovery edges; the plan it  *)
(* follows in an episode; and the pure functions that turn a profile, a plan *)
(* and one public decision into a selected candidate and the plan it        *)
(* proposes to go on with.  Nothing here changes: TeacherRun keeps the plans.*)
(*                                                                          *)
(* Identifiers are numbers, because ties are broken by their order.  What a *)
(* predicate says of an observation or of a candidate is given (holds and   *)
(* meets); the registry that computes it is not modelled.                   *)
(***************************************************************************)
EXTENDS Integers, FiniteSets

CONSTANTS
    Condition,  \* public predicates and resource requirements of the profile
    Intent,     \* candidate intents of the profile
    Profile,    \* goals, lines and edges, see ProfileAssumption
    None

Status == {"True", "False", "Unsupported", "Invalid"}
SourceKind == {"Goal", "Line", "Node"}

(* The registered reasons of an invalidation; only the first is ever raised. *)
Reason == {"public_state_contradiction", "other"}

Goals == DOMAIN Profile.goals
Lines == DOMAIN Profile.lines
Edges == DOMAIN Profile.edges
NodesOf(l) == DOMAIN Profile.lines[l].nodes
Nodes == UNION {NodesOf(l) : l \in Lines}

Goal == [priority : Int, preconditions : SUBSET Condition,
         completion : SUBSET Condition, stop : SUBSET Condition]
Node == [intents : SUBSET Intent, completion : SUBSET Condition]
Edge == [kind : SourceKind, source : Nat, reasons : SUBSET Reason,
         preconditions : SUBSET Condition, intents : SUBSET Intent,
         goal : Goals, line : Lines \cup {None}, cap : Nat]

(* validate_node_dependencies: within the line, and without a cycle. *)
DependenciesValid(line) ==
    LET nodes == DOMAIN line.nodes
    IN  /\ line.dependencies \subseteq {d \in nodes \X nodes : d[1] # d[2]}
        /\ \A S \in SUBSET nodes \ {{}} :
             \E n \in S : \A d \in line.dependencies : d[2] = n => d[1] \notin S

LineValid(line) ==
    /\ line.goal \in Goals
    /\ line.applicability \subseteq Condition
    /\ line.preference \in Int
    /\ DOMAIN line.nodes \subseteq Nat
    /\ \A n \in DOMAIN line.nodes : line.nodes[n] \in Node
    /\ line.recovery \subseteq Edges
    /\ DependenciesValid(line)

EdgeValid(edge) ==
    /\ edge \in Edge
    /\ edge.kind = "Goal" => edge.source \in Goals
    /\ edge.kind = "Line" => edge.source \in Lines
    /\ edge.kind = "Node" => Cardinality({l \in Lines : edge.source \in NodesOf(l)}) = 1
    /\ edge.line # None => Profile.lines[edge.line].goal = edge.goal

(* validate_profile_content, as far as a plan can depend on it. *)
ProfileValid ==
    /\ Goals \cup Lines \cup Edges \subseteq Nat
    /\ IsFiniteSet(Goals) /\ IsFiniteSet(Lines) /\ IsFiniteSet(Edges)
    /\ \A g \in Goals : Profile.goals[g] \in Goal
    /\ \A l \in Lines : LineValid(Profile.lines[l])
    /\ \A e \in Edges : EdgeValid(Profile.edges[e])

ASSUME ProfileAssumption == ProfileValid /\ None \notin Int

----------------------------------------------------------------------------
(* A plan: EpisodeLocalStrategyStateV2 without the last accepted action.    *)
(* The one fact the teacher ever stores is the length of the chain.         *)
Plans == [goal : Goals \cup {None}, line : Lines \cup {None}, completed : SUBSET Nodes,
          achieved : SUBSET Goals, chain : Nat \cup {None}]

EmptyPlan == [goal |-> None, line |-> None, completed |-> {}, achieved |-> {}, chain |-> None]

(* valid_plan_references *)
PlanValid(p) ==
    /\ p \in Plans
    /\ IF p.line = None THEN p.completed = {}
       ELSE /\ p.goal = Profile.lines[p.line].goal
            /\ p.completed \subseteq NodesOf(p.line)

(* What the teacher sees: one public decision and its candidates. *)
Candidates == [key : Nat, select : BOOLEAN, meets : [Intent -> Status]]
Views == [chain : Nat, unselect : BOOLEAN, holds : [Condition -> Status]]

----------------------------------------------------------------------------
(* combine_predicate_statuses *)
Combined(S) ==
    IF "Invalid" \in S THEN "Invalid"
    ELSE IF "Unsupported" \in S THEN "Unsupported"
    ELSE IF "False" \in S THEN "False"
    ELSE "True"

(* evaluate_public_predicate_conjunction *)
Holds(view, conditions) == Combined({view.holds[c] : c \in conditions})

(* goal_eligibility *)
GoalEligibility(view, g) ==
    LET pre == Holds(view, Profile.goals[g].preconditions)
        stop == IF Profile.goals[g].stop = {} THEN "False"
                ELSE Holds(view, Profile.goals[g].stop)
        worse == Combined({pre, stop} \ {"False"})
    IN  IF worse # "True" THEN worse
        ELSE IF pre = "True" /\ stop = "False" THEN "True" ELSE "False"

(* line_eligibility *)
LineEligibility(view, l) == Holds(view, Profile.lines[l].applicability)

(* When nothing is chosen, the worst of what was seen says why. *)
WhyNone(statuses) ==
    IF "Invalid" \in statuses THEN "Invalid"
    ELSE IF "Unsupported" \in statuses THEN "Unsupported" ELSE "False"

(* Highest rank first, then the smallest identifier. *)
BestBy(S, rank(_)) ==
    CHOOSE x \in S : \A y \in S : rank(x) > rank(y) \/ (rank(x) = rank(y) /\ x <= y)

(* Mutant: dependencies are not looked at. *)
ReadyWithout(l, completed) == NodesOf(l) \ completed

(* ready_nodes *)
ReadyNodes(l, completed) ==
    {n \in NodesOf(l) \ completed :
        \A d \in Profile.lines[l].dependencies : d[2] = n => d[1] \in completed}

OpenGoals(plan) == Goals \ plan.achieved
EligibleGoals(view, plan) == {g \in OpenGoals(plan) : GoalEligibility(view, g) = "True"}
EligibleLines(view, g) ==
    {l \in Lines : Profile.lines[l].goal = g /\ LineEligibility(view, l) = "True"}

(* The goal and the line in hand are kept for as long as they are eligible. *)
SelectedGoal(view, plan) ==
    IF plan.goal \in EligibleGoals(view, plan) THEN plan.goal
    ELSE BestBy(EligibleGoals(view, plan), LAMBDA g : Profile.goals[g].priority)

SelectedLine(view, plan, g) ==
    IF plan.line \in EligibleLines(view, g) THEN plan.line
    ELSE IF EligibleLines(view, g) = {} THEN None
    ELSE BestBy(EligibleLines(view, g), LAMBDA l : Profile.lines[l].preference)

(* select_goal_and_line *)
NoSelection(status) == [status |-> status, goal |-> None, line |-> None, ready |-> {}]

Selection(view, plan) ==
    IF EligibleGoals(view, plan) = {}
    THEN NoSelection(WhyNone({GoalEligibility(view, g) : g \in OpenGoals(plan)}))
    ELSE LET g == SelectedGoal(view, plan)
             l == SelectedLine(view, plan, g)
         IN  [status |-> "True", goal |-> g, line |-> l,
              ready |-> IF l = None THEN {} ELSE ReadyNodes(l, plan.completed)]

----------------------------------------------------------------------------
(* retain_current_facts, reconcile_in_place: a stored fact that no longer   *)
(* holds takes the whole plan with it, the achieved goals included.         *)
Stale(view, plan) == plan.chain # None /\ plan.chain # view.chain

Reconciled(view, plan) == IF Stale(view, plan) THEN EmptyPlan ELSE plan

Reasons(view, plan) == IF Stale(view, plan) THEN {"public_state_contradiction"} ELSE {}

(* recovery_source_matches: an edge leaves the plan as it was before.       *)
SourceMatches(plan, e) ==
    LET edge == Profile.edges[e]
    IN  \/ edge.kind = "Goal" /\ plan.goal = edge.source
        \/ edge.kind = "Line" /\ plan.line = edge.source
        \/ edge.kind = "Node" /\ plan.line # None
                              /\ edge.source \in ReadyNodes(plan.line, plan.completed)

RecoveryCandidates(view, plan) ==
    {e \in Edges :
        LET edge == Profile.edges[e]
        IN  /\ SourceMatches(plan, e)
            /\ edge.reasons # {}
            /\ edge.reasons \subseteq Reasons(view, plan)
            /\ plan.line # None /\ edge.kind # "Goal" =>
                 e \in Profile.lines[plan.line].recovery}

(* The edge to the most urgent goal, then the lowest cap, then the smallest. *)
PreferredEdge(S) ==
    LET urgency(e) == Profile.goals[Profile.edges[e].goal].priority
        top == {e \in S : \A f \in S : urgency(e) >= urgency(f)}
    IN  BestBy(top, LAMBDA e : -Profile.edges[e].cap)

NoRecovery(status) == [status |-> status, edge |-> None, goal |-> None, line |-> None]

(* select_recovery_edge *)
Recovery(view, plan) ==
    LET status(e) == Holds(view, Profile.edges[e].preconditions)
        candidates == RecoveryCandidates(view, plan)
        usable == {e \in candidates : status(e) = "True"}
        best == PreferredEdge(usable)
    IN  IF usable = {} THEN NoRecovery(WhyNone({status(e) : e \in candidates}))
        ELSE [status |-> "True", edge |-> best,
              goal |-> Profile.edges[best].goal, line |-> Profile.edges[best].line]

----------------------------------------------------------------------------
(* apply_public_completion: what the last accepted action is seen to have   *)
(* completed; None when the profile cannot be evaluated.                    *)
SeenComplete(view, conditions) == conditions # {} /\ Holds(view, conditions) = "True"

CompletedNodes(view, plan) ==
    LET s == Selection(view, plan)
    IN  IF s.status = "True" /\ s.line = plan.line
        THEN plan.completed \cup
             {n \in s.ready : SeenComplete(view, Profile.lines[plan.line].nodes[n].completion)}
        ELSE plan.completed

AfterCompletion(view, plan, acted) ==
    IF ~acted \/ plan.goal = None THEN plan
    ELSE IF plan.line # None /\ Selection(view, plan).status = "Invalid" THEN None
    ELSE IF SeenComplete(view, Profile.goals[plan.goal].completion)
    THEN [plan EXCEPT !.goal = None, !.line = None, !.completed = {},
                      !.achieved = @ \cup {plan.goal}]
    ELSE IF plan.line = None THEN plan
    ELSE [plan EXCEPT !.completed = CompletedNodes(view, plan)]

----------------------------------------------------------------------------
(* match_candidate_intent_set: one intent that matches is enough. *)
Matches(candidate, intents) ==
    LET S == {candidate.meets[i] : i \in intents}
    IN  IF "True" \in S THEN "True" ELSE WhyNone(S)

(* evaluate_goal_line_progress: what a candidate does for the selected line *)
(* and for a recovery.  boundary: a card choice under way in a plan.        *)
Progress(view, selection, recovery, candidate, boundary) ==
    LET active == selection.status = "True" /\ selection.line # None
        recovers == recovery.status = "True"
        along == IF active THEN {Matches(candidate, Profile.lines[selection.line].nodes[n].intents) :
                                    n \in selection.ready}
                 ELSE {}
        back == IF recovers THEN {Matches(candidate, Profile.edges[recovery.edge].intents)} ELSE {}
        worst == WhyNone(along \cup back)
    IN  CASE "Invalid" \in {selection.status, recovery.status} -> [status |-> "Invalid", value |-> 0]
          [] "Unsupported" \in {selection.status, recovery.status} /\ ~boundary ->
                [status |-> "Unsupported", value |-> 0]
          [] OTHER ->
                IF worst # "False" THEN [status |-> worst, value |-> 0]
                ELSE IF ~active /\ ~recovers /\ ~boundary
                THEN [status |-> "NotApplicable", value |-> 0]
                ELSE [status |-> "Supported",
                      value  |-> IF "True" \in along THEN 3
                                 ELSE IF "True" \in back THEN 2
                                 ELSE IF boundary /\ candidate.select THEN 1 ELSE 0]

----------------------------------------------------------------------------
(* TeacherCore::propose, in its two generations: the second goes on with a  *)
(* card choice that belongs to a plan, whatever has become of its line.     *)
InvalidInput == [status |-> "InvalidInput", key |-> None, level |-> None, plan |-> None]

HasLine(selection) == selection.status = "True" /\ selection.line # None

Retained(plan, selection) ==
    HasLine(selection) /\ plan.goal = selection.goal /\ plan.line = selection.line

AtBoundary(generation, view, plan) ==
    generation = 2 /\ plan.goal # None /\ plan.line # None /\ view.unselect

(* A stage of the fallback: every candidate's value, if it applies. *)
Stage(applies, candidates, value(_)) ==
    IF applies THEN {[key |-> c.key, status |-> value(c).status, value |-> value(c).value] :
                        c \in candidates}
    ELSE {}

(* It counts only if it is total, and says something of some candidate. *)
Counts(stage) ==
    /\ stage # {}
    /\ \A v \in stage : v.status = "Supported"
    /\ \E v \in stage : v.value > 0

(* resolve_teacher_fallback: the first stage that counts decides, else the  *)
(* smallest key does.                                                       *)
BestKey(stage) ==
    LET top == {v \in stage : \A w \in stage : v.value >= w.value}
    IN  CHOOSE k \in {v.key : v \in top} : \A w \in top : k <= w.key

Level(f0, f1) == IF Counts(f0) THEN 0 ELSE IF Counts(f1) THEN 1 ELSE 4

ResolvedKey(f0, f1, candidates) ==
    CASE Level(f0, f1) = 0 -> BestKey(f0)
      [] Level(f0, f1) = 1 -> BestKey(f1)
      [] OTHER -> CHOOSE k \in {c.key : c \in candidates} : \A c \in candidates : k <= c.key

(* Mutant: the nodes of the old line stay. *)
FollowKeepingNodes(plan, selection) ==
    [plan EXCEPT !.goal = selection.goal, !.line = selection.line]

(* The plan the proposal goes on with. *)
FollowSelection(plan, selection) ==
    [plan EXCEPT !.goal = selection.goal, !.line = selection.line,
                 !.completed = IF plan.line # selection.line THEN {} ELSE @]

NextPlan(view, plan, selection, recovery, level) ==
    LET seen == [plan EXCEPT !.chain = view.chain]
    IN  IF level = 1 /\ recovery.status = "True"
        THEN [seen EXCEPT !.goal = recovery.goal, !.line = recovery.line, !.completed = {}]
        ELSE IF level = 1 /\ HasLine(selection) THEN FollowSelection(seen, selection)
        ELSE IF level = 0 /\ selection.status = "True" THEN FollowSelection(seen, selection)
        ELSE seen

(* The proposal, once the stages are known: a level, a key and a plan.      *)
Resolved(view, candidates, plan, selection, recovery, f0, f1) ==
    LET next == NextPlan(view, plan, selection, recovery, Level(f0, f1))
    IN  IF \/ "Invalid" \in {selection.status, recovery.status}
           \/ \E v \in f0 \cup f1 : v.status = "Invalid"
           \/ ~PlanValid(next)
        THEN InvalidInput
        ELSE [status |-> "Selected", key |-> ResolvedKey(f0, f1, candidates),
              level |-> Level(f0, f1), plan |-> next]

(* The stage of the line in hand, or of a card choice under way in it; ...  *)
LineStage(view, candidates, selection, retained, boundary) ==
    Stage(retained \/ boundary, candidates,
          LAMBDA c : Progress(view, selection, NoRecovery("False"), c, boundary))

(* ... and the stage of a new line, or of a recovery.                       *)
RecoveryStage(view, candidates, selection, recovery, retained) ==
    Stage((HasLine(selection) /\ ~retained) \/ recovery.status = "True", candidates,
          LAMBDA c : Progress(view, IF HasLine(selection) THEN selection ELSE NoSelection("False"),
                              IF recovery.status = "True" THEN recovery ELSE NoRecovery("False"),
                              c, FALSE))

Judgement(generation, view, candidates, plan, selection, recovery) ==
    LET retained == Retained(plan, selection)
    IN  Resolved(view, candidates, plan, selection, recovery,
                 LineStage(view, candidates, selection, retained,
                           AtBoundary(generation, view, plan)),
                 RecoveryStage(view, candidates, selection, recovery, retained))

Continued(generation, view, candidates, plan, recovery) ==
    IF plan = None THEN InvalidInput
    ELSE Judgement(generation, view, candidates, plan, Selection(view, plan), recovery)

(* The plan is reconciled, what was completed is noted, and with it the     *)
(* candidates are judged; a recovery starts from the plan as it was.        *)
Propose(generation, view, candidates, plan, acted) ==
    Continued(generation, view, candidates,
              AfterCompletion(view, Reconciled(view, plan), acted), Recovery(view, plan))

============================================================================
