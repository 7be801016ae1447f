--------------------------- MODULE TeacherRunProofs ---------------------------
(***************************************************************************)
(* Proofs about TeacherRun and the functions of TeacherStrategy: what a     *)
(* teacher promises of its plans and proposals, for every profile, every    *)
(* set of decisions and every budget.                                       *)
(*                                                                          *)
(* First, a proposal made from a coherent plan goes on with a coherent      *)
(* plan and names one of the candidates, and one is made whenever the       *)
(* profile can judge the decision.  Then, an invariant of the run says,     *)
(* phase by phase, what is pending and what was told.                       *)
(***************************************************************************)
EXTENDS TeacherRun, FiniteSetTheorems, WellFoundedInduction, TLAPS

----------------------------------------------------------------------------
(***************************************************************************)
(* Choosing the best: BestBy and its like choose something.                 *)
(***************************************************************************)

LEMMA SmallestExists ==
    ASSUME NEW T \in SUBSET Nat, T # {}
    PROVE  \E n \in T : \A m \in T : n <= m
<1> DEFINE R == {ss \in Nat \X Nat : ss[1] < ss[2]}
<1>1. IsWellFoundedOn(R, Nat)
  BY NatLessThanWellFounded DEF OpToRel
<1>2. \E n \in T : \A m \in T : ~ (<<m, n>> \in R)
  <2> HIDE DEF R
  <2> QED BY <1>1, WFMin
<1>3. PICK n \in T : \A m \in T : ~ (<<m, n>> \in R)
  BY <1>2
<1>4. \A m \in T : ~(m < n)
  BY <1>3
<1> QED
  BY <1>4

(* In a finite set something has the highest rank, and of what has it the   *)
(* smallest number.                                                         *)
LEMMA BestExists ==
    ASSUME NEW S, IsFiniteSet(S), S # {}, NEW f \in [S -> Int], NEW g \in [S -> Int]
    PROVE  \E x \in S : \A y \in S : f[x] > f[y] \/ (f[x] = f[y] /\ g[x] <= g[y])
<1> DEFINE Over(x, y) == f[x] > f[y] \/ (f[x] = f[y] /\ g[x] <= g[y])
           Has(T) == \E x \in T : \A y \in T : Over(x, y)
           Bad == {n \in Nat : \E T \in SUBSET S :
                                  T # {} /\ Cardinality(T) = n /\ ~Has(T)}
<1>1. SUFFICES Bad = {}
  <2>1. Cardinality(S) \in Nat
    BY FS_CardinalityType
  <2> QED
    BY <1>1, <2>1
<1>2. SUFFICES ASSUME Bad # {} PROVE FALSE
  OBVIOUS
<1>3. PICK n \in Bad : \A m \in Bad : n <= m
  <2> HIDE DEF Bad
  <2>1. Bad \in SUBSET Nat
    BY DEF Bad
  <2> QED BY <1>2, <2>1, SmallestExists
<1>4. PICK T \in SUBSET S : T # {} /\ Cardinality(T) = n /\ ~Has(T)
  BY <1>3
<1>5. PICK x \in T : TRUE
  BY <1>4
<1>6. IsFiniteSet(T) /\ IsFiniteSet(T \ {x})
  BY <1>4, FS_Subset, FS_RemoveElement
<1>7. Cardinality(T \ {x}) = n - 1 /\ Cardinality(T \ {x}) \in Nat
  BY <1>4, <1>5, <1>6, FS_RemoveElement, FS_CardinalityType
<1>8. CASE T \ {x} = {}
  <2>1. Over(x, x)
    BY <1>5
  <2> QED BY <1>4, <1>5, <1>8, <2>1
<1>9. CASE T \ {x} # {}
  <2>1. Has(T \ {x})
    <3>1. n - 1 \notin Bad
      BY <1>3, <1>7
    <3> HIDE DEF Has
    <3> QED BY <1>4, <1>7, <1>9, <3>1
  <2>2. PICK b \in T \ {x} : \A y \in T \ {x} : Over(b, y)
    BY <2>1
  <2>3. b \in S /\ x \in S
    BY <1>4, <1>5, <2>2
  <2>4. CASE Over(b, x)
    BY <1>4, <1>5, <2>2, <2>4
  <2>5. CASE ~Over(b, x)
    <3>1. \A y \in T : y \in S /\ f[y] \in Int /\ g[y] \in Int
      BY <1>4
    <3>2. f[x] \in Int /\ g[x] \in Int /\ f[b] \in Int /\ g[b] \in Int
      BY <2>3
    <3>3. \A y \in T : Over(x, y)
      BY <2>2, <2>5, <3>1, <3>2
    <3> QED BY <1>4, <1>5, <3>3
  <2> QED BY <2>4, <2>5
<1> QED
  BY <1>8, <1>9

----------------------------------------------------------------------------
(***************************************************************************)
(* One decision: the functions of TeacherStrategy.                          *)
(***************************************************************************)

LEMMA ProfileFacts ==
    /\ None \notin Goals /\ None \notin Lines /\ None \notin Edges /\ None \notin Nat
    /\ Goals \subseteq Nat /\ Lines \subseteq Nat /\ Edges \subseteq Nat
    /\ IsFiniteSet(Goals) /\ IsFiniteSet(Lines) /\ IsFiniteSet(Edges)
    /\ \A g \in Goals : /\ Profile.goals[g].priority \in Int
                        /\ Profile.goals[g].preconditions \subseteq Condition
                        /\ Profile.goals[g].completion \subseteq Condition
                        /\ Profile.goals[g].stop \subseteq Condition
    /\ \A l \in Lines : /\ Profile.lines[l].goal \in Goals
                        /\ Profile.lines[l].applicability \subseteq Condition
                        /\ Profile.lines[l].preference \in Int
                        /\ \A n \in NodesOf(l) : Profile.lines[l].nodes[n] \in Node
    /\ \A e \in Edges : /\ Profile.edges[e].goal \in Goals
                        /\ Profile.edges[e].line \in Lines \cup {None}
                        /\ Profile.edges[e].line # None =>
                             Profile.lines[Profile.edges[e].line].goal = Profile.edges[e].goal
                        /\ Profile.edges[e].preconditions \subseteq Condition
                        /\ Profile.edges[e].intents \subseteq Intent
                        /\ Profile.edges[e].cap \in Nat
<1>1. ASSUME NEW g \in Goals
      PROVE  /\ Profile.goals[g].priority \in Int
             /\ Profile.goals[g].preconditions \subseteq Condition
             /\ Profile.goals[g].completion \subseteq Condition
             /\ Profile.goals[g].stop \subseteq Condition
  BY <1>1, ProfileAssumption DEF ProfileValid, Goal
<1>2. ASSUME NEW l \in Lines
      PROVE  /\ Profile.lines[l].goal \in Goals
             /\ Profile.lines[l].applicability \subseteq Condition
             /\ Profile.lines[l].preference \in Int
             /\ \A n \in NodesOf(l) : Profile.lines[l].nodes[n] \in Node
  BY <1>2, ProfileAssumption DEF ProfileValid, LineValid, NodesOf
<1>3. ASSUME NEW e \in Edges
      PROVE  /\ Profile.edges[e].goal \in Goals
             /\ Profile.edges[e].line \in Lines \cup {None}
             /\ Profile.edges[e].line # None =>
                  Profile.lines[Profile.edges[e].line].goal = Profile.edges[e].goal
             /\ Profile.edges[e].preconditions \subseteq Condition
             /\ Profile.edges[e].intents \subseteq Intent
             /\ Profile.edges[e].cap \in Nat
  <2>1. EdgeValid(Profile.edges[e])
    BY <1>3, ProfileAssumption DEF ProfileValid
  <2> QED BY <2>1 DEF EdgeValid, Edge
<1>4. None \notin Nat
  <2>1. None \notin Int /\ \A n \in Nat : n \in Int
    BY ProfileAssumption
  <2> QED BY <2>1
<1>5. Goals \subseteq Nat /\ Lines \subseteq Nat /\ Edges \subseteq Nat
  BY ProfileAssumption DEF ProfileValid
<1>6. None \notin Goals /\ None \notin Lines /\ None \notin Edges
  BY <1>4, <1>5
<1> QED
  BY <1>1, <1>2, <1>3, <1>4, <1>5, <1>6, ProfileAssumption DEF ProfileValid

(* The coherence the theorems are about, with what it says of None.         *)
LEMMA CoherentFacts ==
    ASSUME NEW p, PlanCoherent(p)
    PROVE  /\ p \in Plans
           /\ p.goal \in Goals \cup {None} /\ p.line \in Lines \cup {None}
           /\ p.completed \subseteq Nodes /\ p.achieved \subseteq Goals
           /\ p.chain \in Nat \cup {None}
           /\ None \notin p.achieved
           /\ p.line = None => p.completed = {}
           /\ p.line # None => /\ p.goal = Profile.lines[p.line].goal
                               /\ p.completed \subseteq NodesOf(p.line)
                               /\ p.goal \in Goals
  BY ProfileFacts DEF PlanCoherent, PlanValid, Plans

LEMMA IsCoherent ==
    ASSUME NEW p \in Plans, p.goal \notin p.achieved, p.line = None => p.completed = {},
           p.line # None =>
             /\ p.goal = Profile.lines[p.line].goal
             /\ p.completed \subseteq NodesOf(p.line)
             /\ \A d \in Profile.lines[p.line].dependencies :
                   d[2] \in p.completed => d[1] \in p.completed
    PROVE  PlanCoherent(p)
  BY DEF PlanCoherent, PlanValid

LEMMA EmptyCoherent == PlanCoherent(EmptyPlan)
  BY ProfileFacts DEF PlanCoherent, PlanValid, Plans, EmptyPlan

(* Only a selection has the status "True", whatever else there was.         *)
LEMMA WhyNoneIsNotTrue ==
    ASSUME NEW S PROVE WhyNone(S) \in Status \ {"True"}
  BY DEF WhyNone, Status

LEMMA SelectedGoalIsEligible ==
    ASSUME NEW view, NEW q, EligibleGoals(view, q) # {}
    PROVE  SelectedGoal(view, q) \in EligibleGoals(view, q)
<1> DEFINE S == EligibleGoals(view, q)
           f == [g \in S |-> Profile.goals[g].priority]
           h == [g \in S |-> g]
<1>1. S \subseteq Goals
  BY DEF EligibleGoals, OpenGoals
<1>2. IsFiniteSet(S) /\ f \in [S -> Int] /\ h \in [S -> Int]
  <2> HIDE DEF S
  <2>1. IsFiniteSet(S)
    BY <1>1, ProfileFacts, FS_Subset
  <2> QED BY <1>1, <2>1, ProfileFacts
<1>3. \E x \in S : \A y \in S : f[x] > f[y] \/ (f[x] = f[y] /\ h[x] <= h[y])
  <2>1. S # {}
    OBVIOUS
  <2> HIDE DEF S, f, h
  <2> QED BY <1>2, <2>1, BestExists
<1>4. \E x \in S : \A y \in S : \/ Profile.goals[x].priority > Profile.goals[y].priority
                                \/ /\ Profile.goals[x].priority = Profile.goals[y].priority
                                   /\ x <= y
  BY <1>3
<1>5. BestBy(S, LAMBDA g : Profile.goals[g].priority) \in S
  <2> HIDE DEF S
  <2> QED BY <1>4 DEF BestBy
<1> QED
  BY <1>5 DEF SelectedGoal

LEMMA SelectedLineServes ==
    ASSUME NEW view, NEW q, NEW g
    PROVE  SelectedLine(view, q, g) \in EligibleLines(view, g) \cup {None}
<1> DEFINE S == EligibleLines(view, g)
           f == [l \in S |-> Profile.lines[l].preference]
           h == [l \in S |-> l]
<1>1. S \subseteq Lines
  BY DEF EligibleLines
<1>2. IsFiniteSet(S) /\ f \in [S -> Int] /\ h \in [S -> Int]
  <2> HIDE DEF S
  <2>1. IsFiniteSet(S)
    BY <1>1, ProfileFacts, FS_Subset
  <2> QED BY <1>1, <2>1, ProfileFacts
<1>3. CASE S # {}
  <2>1. \E x \in S : \A y \in S : f[x] > f[y] \/ (f[x] = f[y] /\ h[x] <= h[y])
    <3> HIDE DEF S, f, h
    <3> QED BY <1>2, <1>3, BestExists
  <2>2. \E x \in S : \A y \in S : \/ Profile.lines[x].preference > Profile.lines[y].preference
                                  \/ /\ Profile.lines[x].preference = Profile.lines[y].preference
                                     /\ x <= y
    BY <2>1
  <2>3. BestBy(S, LAMBDA l : Profile.lines[l].preference) \in S
    <3> HIDE DEF S
    <3> QED BY <2>2 DEF BestBy
  <2> QED BY <2>3 DEF SelectedLine
<1>4. CASE S = {}
  BY <1>4 DEF SelectedLine
<1> QED
  BY <1>3, <1>4

(* What select_goal_and_line selects is open, fits together, and is ready.  *)
LEMMA SelectionSound ==
    ASSUME NEW view, NEW q
    PROVE  LET s == Selection(view, q) IN
           /\ s = [status |-> s.status, goal |-> s.goal, line |-> s.line, ready |-> s.ready]
           /\ s.status = "True" =>
                /\ s.goal \in OpenGoals(q)
                /\ s.line \in Lines \cup {None}
                /\ s.line # None => /\ Profile.lines[s.line].goal = s.goal
                                    /\ s.ready = ReadyNodes(s.line, q.completed)
<1>1. CASE EligibleGoals(view, q) = {}
  BY <1>1, WhyNoneIsNotTrue DEF Selection, NoSelection
<1>2. CASE EligibleGoals(view, q) # {}
  <2> DEFINE g == SelectedGoal(view, q)
             l == SelectedLine(view, q, g)
  <2>1. g \in OpenGoals(q)
    BY <1>2, SelectedGoalIsEligible DEF EligibleGoals
  <2>2. l \in Lines \cup {None} /\ (l # None => Profile.lines[l].goal = g)
    BY SelectedLineServes DEF EligibleLines
  <2>3. Selection(view, q) =
          [status |-> "True", goal |-> g, line |-> l,
           ready |-> IF l = None THEN {} ELSE ReadyNodes(l, q.completed)]
    BY <1>2 DEF Selection
  <2> HIDE DEF g, l
  <2> QED BY <2>1, <2>2, <2>3
<1> QED
  BY <1>1, <1>2

LEMMA PreferredEdgeIsOne ==
    ASSUME NEW S \in SUBSET Edges, S # {}
    PROVE  PreferredEdge(S) \in S
<1> DEFINE f == [e \in S |-> Profile.goals[Profile.edges[e].goal].priority]
           zero == [e \in S |-> 0]
           top == {e \in S : \A x \in S : Profile.goals[Profile.edges[e].goal].priority
                                            >= Profile.goals[Profile.edges[x].goal].priority}
           cap == [e \in top |-> -Profile.edges[e].cap]
           h == [e \in top |-> e]
<1>1. IsFiniteSet(S) /\ f \in [S -> Int] /\ zero \in [S -> Int]
  <2>1. IsFiniteSet(S)
    BY ProfileFacts, FS_Subset
  <2>2. \A e \in S : Profile.goals[Profile.edges[e].goal].priority \in Int
    BY ProfileFacts
  <2> QED BY <2>1, <2>2
<1>2. \E x \in S : \A y \in S : f[x] > f[y] \/ (f[x] = f[y] /\ zero[x] <= zero[y])
  <2> HIDE DEF f, zero
  <2> QED BY <1>1, BestExists
<1>3. top # {}
  BY <1>1, <1>2
<1>4. IsFiniteSet(top) /\ cap \in [top -> Int] /\ h \in [top -> Int]
  <2>1. top \in SUBSET S
    OBVIOUS
  <2> HIDE DEF top
  <2>2. IsFiniteSet(top)
    BY <1>1, <2>1, FS_Subset
  <2>3. \A e \in top : e \in Int /\ -Profile.edges[e].cap \in Int
    BY <2>1, ProfileFacts
  <2> QED BY <2>2, <2>3
<1>5. \E x \in top : \A y \in top : cap[x] > cap[y] \/ (cap[x] = cap[y] /\ h[x] <= h[y])
  <2> HIDE DEF top, cap, h
  <2> QED BY <1>3, <1>4, BestExists
<1>6. \E x \in top : \A y \in top : \/ -Profile.edges[x].cap > -Profile.edges[y].cap
                                    \/ /\ -Profile.edges[x].cap = -Profile.edges[y].cap
                                       /\ x <= y
  <2> HIDE DEF top
  <2> QED BY <1>5
<1>7. BestBy(top, LAMBDA e : -Profile.edges[e].cap) \in top
  <2> HIDE DEF top
  <2> QED BY <1>6 DEF BestBy
<1>8. PreferredEdge(S) = BestBy(top, LAMBDA e : -Profile.edges[e].cap)
  BY DEF PreferredEdge, BestBy
<1> QED
  BY <1>7, <1>8

(* A recovery answers a plan that no longer holds, by an edge's target.     *)
LEMMA RecoverySound ==
    ASSUME NEW view, NEW q
    PROVE  LET r == Recovery(view, q) IN
           /\ r.status \in Status
           /\ r.status = "True" => /\ Stale(view, q)
                                   /\ r.edge \in Edges
                                   /\ r.goal = Profile.edges[r.edge].goal
                                   /\ r.line = Profile.edges[r.edge].line
<1> DEFINE C == RecoveryCandidates(view, q)
           usable == {e \in C : Holds(view, Profile.edges[e].preconditions) = "True"}
           why == {Holds(view, Profile.edges[e].preconditions) : e \in C}
<1>1. CASE usable = {}
  <2>1. Recovery(view, q) = NoRecovery(WhyNone(why))
    BY <1>1 DEF Recovery
  <2> QED BY <2>1, WhyNoneIsNotTrue DEF NoRecovery
<1>2. CASE usable # {}
  <2> DEFINE best == PreferredEdge(usable)
  <2>1. Recovery(view, q) = [status |-> "True", edge |-> best,
                             goal |-> Profile.edges[best].goal, line |-> Profile.edges[best].line]
    BY <1>2 DEF Recovery
  <2>2. usable \in SUBSET Edges
    BY DEF RecoveryCandidates
  <2>3. best \in usable
    <3> HIDE DEF usable
    <3> QED BY <1>2, <2>2, PreferredEdgeIsOne
  <2>4. Stale(view, q)
    BY <2>3 DEF RecoveryCandidates, Reasons
  <2>5. best \in Edges
    BY <2>2, <2>3
  <2> HIDE DEF best
  <2> QED BY <2>1, <2>4, <2>5 DEF Status
<1> QED
  BY <1>1, <1>2

LEMMA ReconciledCoherent ==
    ASSUME NEW view, NEW q, PlanCoherent(q)
    PROVE  PlanCoherent(Reconciled(view, q))
  BY EmptyCoherent DEF Reconciled

(* What is ready may be completed next. *)
LEMMA CompletedNodesCoherent ==
    ASSUME NEW view, NEW q, PlanCoherent(q), q.line # None
    PROVE  LET C == CompletedNodes(view, q) IN
           /\ C \subseteq NodesOf(q.line)
           /\ \A d \in Profile.lines[q.line].dependencies : d[2] \in C => d[1] \in C
<1> DEFINE s == Selection(view, q)
           D == {n \in s.ready :
                   SeenComplete(view, Profile.lines[q.line].nodes[n].completion)}
<1>1. q.completed \subseteq NodesOf(q.line)
  BY CoherentFacts
<1>2. \A d \in Profile.lines[q.line].dependencies :
         d[2] \in q.completed => d[1] \in q.completed
  BY DEF PlanCoherent
<1>3. CASE s.status = "True" /\ s.line = q.line
  <2>1. s.ready = ReadyNodes(q.line, q.completed)
    BY <1>3, SelectionSound
  <2>2. CompletedNodes(view, q) = q.completed \cup D
    BY <1>3 DEF CompletedNodes
  <2>3. \A n \in D : n \in ReadyNodes(q.line, q.completed)
    BY <2>1
  <2> HIDE DEF s, D
  <2> QED BY <1>1, <1>2, <2>2, <2>3 DEF ReadyNodes
<1>4. CASE ~(s.status = "True" /\ s.line = q.line)
  BY <1>1, <1>2, <1>4 DEF CompletedNodes
<1> QED
  BY <1>3, <1>4

LEMMA AchievingCoherent ==
    ASSUME NEW q, PlanCoherent(q), q.goal # None
    PROVE  PlanCoherent([q EXCEPT !.goal = None, !.line = None, !.completed = {},
                                  !.achieved = @ \cup {q.goal}])
<1> DEFINE r == [q EXCEPT !.goal = None, !.line = None, !.completed = {},
                          !.achieved = @ \cup {q.goal}]
<1>1. q \in Plans /\ q.goal \in Goals /\ None \notin Goals /\ None \notin q.achieved
  <2>1. q \in Plans /\ q.goal \in Goals \cup {None} /\ None \notin q.achieved
    BY CoherentFacts
  <2>2. None \notin Goals
    BY ProfileFacts
  <2> QED BY <2>1, <2>2
<1>2. r \in Plans
  BY <1>1 DEF Plans
<1>3. r.goal = None /\ r.line = None /\ r.completed = {} /\ r.achieved = q.achieved \cup {q.goal}
  BY <1>1 DEF Plans
<1>4. SUFFICES PlanCoherent(r)
  OBVIOUS
<1> HIDE DEF r
<1> QED
  BY <1>1, <1>2, <1>3, IsCoherent

LEMMA AdvancingCoherent ==
    ASSUME NEW view, NEW q, PlanCoherent(q), q.line # None
    PROVE  PlanCoherent([q EXCEPT !.completed = CompletedNodes(view, q)])
<1> DEFINE C == CompletedNodes(view, q)
           r == [q EXCEPT !.completed = C]
<1>1. /\ C \subseteq NodesOf(q.line)
      /\ \A d \in Profile.lines[q.line].dependencies : d[2] \in C => d[1] \in C
  BY CompletedNodesCoherent
<1>2. C \subseteq Nodes /\ q \in Plans
  <2>1. q \in Plans /\ q.line \in Lines
    BY CoherentFacts
  <2> HIDE DEF C
  <2> QED BY <1>1, <2>1 DEF Nodes
<1>3. r \in Plans /\ r.goal = q.goal /\ r.line = q.line /\ r.achieved = q.achieved
      /\ r.completed = C
  <2> HIDE DEF C
  <2> QED BY <1>2 DEF Plans
<1>4. q.goal \notin q.achieved /\ q.goal = Profile.lines[q.line].goal
  BY CoherentFacts DEF PlanCoherent
<1>5. SUFFICES PlanCoherent(r)
  OBVIOUS
<1> HIDE DEF r, C
<1> QED
  BY <1>1, <1>3, <1>4, IsCoherent

LEMMA AfterCompletionCoherent ==
    ASSUME NEW view, NEW q, PlanCoherent(q), NEW acted,
           AfterCompletion(view, q, acted) # None
    PROVE  PlanCoherent(AfterCompletion(view, q, acted))
  BY AchievingCoherent, AdvancingCoherent DEF AfterCompletion

LEMMA SeeingCoherent ==
    ASSUME NEW q, PlanCoherent(q), NEW n \in Nat
    PROVE  LET r == [q EXCEPT !.chain = n] IN
           /\ PlanCoherent(r)
           /\ r.chain = n /\ r.goal = q.goal /\ r.line = q.line
           /\ r.completed = q.completed /\ r.achieved = q.achieved
<1> DEFINE r == [q EXCEPT !.chain = n]
<1>1. q \in Plans
  BY CoherentFacts
<1>2. r \in Plans /\ r.chain = n /\ r.goal = q.goal /\ r.line = q.line
      /\ r.completed = q.completed /\ r.achieved = q.achieved
  BY <1>1 DEF Plans
<1>3. PlanCoherent(r)
  <2> HIDE DEF r
  <2> QED BY <1>2, CoherentFacts, IsCoherent DEF PlanCoherent
<1> QED
  BY <1>2, <1>3

LEMMA FollowingCoherent ==
    ASSUME NEW q, PlanCoherent(q), NEW s, s.goal \in OpenGoals(q), s.line \in Lines \cup {None},
           s.line # None => Profile.lines[s.line].goal = s.goal
    PROVE  /\ PlanCoherent(FollowSelection(q, s))
           /\ FollowSelection(q, s).chain = q.chain
<1> DEFINE r == FollowSelection(q, s)
           C == IF q.line # s.line THEN {} ELSE q.completed
<1>1. q \in Plans /\ s.goal \in Goals
  BY CoherentFacts DEF OpenGoals
<1>2. C \subseteq Nodes
  BY CoherentFacts
<1>3. r = [q EXCEPT !.goal = s.goal, !.line = s.line, !.completed = C]
  BY <1>1 DEF FollowSelection, Plans
<1>4. r \in Plans /\ r.goal = s.goal /\ r.line = s.line /\ r.completed = C
      /\ r.achieved = q.achieved /\ r.chain = q.chain
  <2> HIDE DEF r, C
  <2> QED BY <1>1, <1>2, <1>3 DEF Plans
<1>5. r.goal \notin r.achieved
  <2> HIDE DEF r, C
  <2> QED BY <1>4 DEF OpenGoals
<1>6. C = {} \/ (C = q.completed /\ q.line = s.line)
  OBVIOUS
<1>7. PlanCoherent(r)
  <2> HIDE DEF r, C
  <2>1. r.line = None => C = {}
    BY <1>4, <1>6, CoherentFacts
  <2>2. ASSUME r.line # None
        PROVE  /\ C \subseteq NodesOf(r.line)
               /\ \A d \in Profile.lines[r.line].dependencies : d[2] \in C => d[1] \in C
    <3>1. CASE C = {}
      BY <3>1
    <3>2. CASE C = q.completed /\ q.line = s.line
      BY <1>4, <2>2, <3>2, CoherentFacts DEF PlanCoherent
    <3> QED BY <1>6, <3>1, <3>2
  <2>3. r.line # None => r.goal = Profile.lines[r.line].goal
    BY <1>4
  <2> QED BY <1>4, <1>5, <2>1, <2>2, <2>3, IsCoherent
<1> QED
  BY <1>4, <1>7

LEMMA RecoveringCoherent ==
    ASSUME NEW q, PlanCoherent(q), q.achieved = {}, NEW e \in Edges
    PROVE  LET r == [q EXCEPT !.goal = Profile.edges[e].goal, !.line = Profile.edges[e].line,
                              !.completed = {}]
           IN  PlanCoherent(r) /\ r.chain = q.chain
<1> DEFINE r == [q EXCEPT !.goal = Profile.edges[e].goal, !.line = Profile.edges[e].line,
                          !.completed = {}]
<1>1. q \in Plans
  BY CoherentFacts
<1>2. /\ Profile.edges[e].goal \in Goals /\ Profile.edges[e].line \in Lines \cup {None}
      /\ Profile.edges[e].line # None =>
           Profile.lines[Profile.edges[e].line].goal = Profile.edges[e].goal
  BY ProfileFacts
<1>3. r \in Plans /\ r.goal = Profile.edges[e].goal /\ r.line = Profile.edges[e].line
      /\ r.completed = {} /\ r.achieved = {} /\ r.chain = q.chain
  BY <1>1, <1>2 DEF Plans
<1>4. PlanCoherent(r)
  <2> HIDE DEF r
  <2> QED BY <1>2, <1>3, IsCoherent
<1> QED
  BY <1>3, <1>4

LEMMA NextPlanCoherent ==
    ASSUME NEW view, view.chain \in Nat, NEW q, PlanCoherent(q), NEW level,
           NEW recovery,
           recovery.status = "True" =>
             /\ q.achieved = {}
             /\ \E e \in Edges : /\ recovery.goal = Profile.edges[e].goal
                                 /\ recovery.line = Profile.edges[e].line
    PROVE  LET next == NextPlan(view, q, Selection(view, q), recovery, level)
           IN  PlanCoherent(next) /\ next.chain = view.chain
<1> DEFINE s == Selection(view, q)
           seen == [q EXCEPT !.chain = view.chain]
           next == NextPlan(view, q, s, recovery, level)
<1>1. PlanCoherent(seen) /\ seen.chain = view.chain /\ seen.achieved = q.achieved
  BY SeeingCoherent
<1>2. \/ next = seen
      \/ s.status = "True" /\ next = FollowSelection(seen, s)
      \/ /\ recovery.status = "True"
         /\ next = [seen EXCEPT !.goal = recovery.goal, !.line = recovery.line, !.completed = {}]
  <2> HIDE DEF s
  <2> QED BY DEF NextPlan, HasLine
<1>3. ASSUME s.status = "True"
      PROVE  /\ s.goal \in OpenGoals(seen) /\ s.line \in Lines \cup {None}
             /\ s.line # None => Profile.lines[s.line].goal = s.goal
  <2>1. /\ s.goal \in OpenGoals(q) /\ s.line \in Lines \cup {None}
        /\ s.line # None => Profile.lines[s.line].goal = s.goal
    BY <1>3, SelectionSound
  <2> HIDE DEF s, seen
  <2> QED BY <1>1, <2>1 DEF OpenGoals
<1> HIDE DEF s, seen, next
<1>4. CASE next = seen
  BY <1>1, <1>4 DEF next, s
<1>5. CASE s.status = "True" /\ next = FollowSelection(seen, s)
  <2>1. PlanCoherent(next) /\ next.chain = seen.chain
    BY <1>1, <1>3, <1>5, FollowingCoherent
  <2> QED BY <1>1, <2>1 DEF next, s
<1>6. CASE /\ recovery.status = "True"
           /\ next = [seen EXCEPT !.goal = recovery.goal, !.line = recovery.line,
                                  !.completed = {}]
  <2>1. PICK e \in Edges : /\ recovery.goal = Profile.edges[e].goal
                           /\ recovery.line = Profile.edges[e].line
    BY <1>6
  <2>2. PlanCoherent(next) /\ next.chain = seen.chain
    BY <1>1, <1>6, <2>1, RecoveringCoherent
  <2> QED BY <1>1, <2>2 DEF next, s
<1> QED
  BY <1>2, <1>4, <1>5, <1>6

(* A proposal goes on with a coherent plan that knows the present chain.    *)
LEMMA RecoveryStartsAnew ==
    ASSUME NEW view, NEW q, NEW acted, Recovery(view, q).status = "True"
    PROVE  LET completed == AfterCompletion(view, Reconciled(view, q), acted) IN
           /\ completed.achieved = {}
           /\ \E e \in Edges : /\ Recovery(view, q).goal = Profile.edges[e].goal
                               /\ Recovery(view, q).line = Profile.edges[e].line
<1>1. Stale(view, q)
  BY RecoverySound
<1>2. Reconciled(view, q) = EmptyPlan
  BY <1>1 DEF Reconciled
<1>3. AfterCompletion(view, Reconciled(view, q), acted) = EmptyPlan
  BY <1>2 DEF AfterCompletion, EmptyPlan
<1> QED
  BY <1>3, RecoverySound DEF EmptyPlan

LEMMA ProposalCoherent ==
    ASSUME NEW gen, NEW view, view.chain \in Nat, NEW candidates, NEW q, PlanCoherent(q), NEW acted,
           Propose(gen, view, candidates, q, acted).status = "Selected"
    PROVE  LET next == Propose(gen, view, candidates, q, acted).plan
           IN  PlanCoherent(next) /\ next.chain = view.chain
<1> DEFINE completed == AfterCompletion(view, Reconciled(view, q), acted)
           recovery == Recovery(view, q)
<1>1. /\ completed # None
      /\ \E level : Propose(gen, view, candidates, q, acted).plan =
                      NextPlan(view, completed, Selection(view, completed), recovery, level)
  BY DEF Propose, Continued, Judgement, Resolved, InvalidInput
<1>2. PICK level : Propose(gen, view, candidates, q, acted).plan =
                     NextPlan(view, completed, Selection(view, completed), recovery, level)
  BY <1>1
<1>3. PlanCoherent(completed)
  BY <1>1, ReconciledCoherent, AfterCompletionCoherent
<1>4. recovery.status = "True" =>
        /\ completed.achieved = {}
        /\ \E e \in Edges : /\ recovery.goal = Profile.edges[e].goal
                            /\ recovery.line = Profile.edges[e].line
  BY RecoveryStartsAnew
<1> HIDE DEF completed, recovery
<1>5. LET next == NextPlan(view, completed, Selection(view, completed), recovery, level)
      IN  PlanCoherent(next) /\ next.chain = view.chain
  BY <1>3, <1>4, NextPlanCoherent
<1> QED
  BY <1>2, <1>5

(* What is proposed is the key of a candidate.                              *)
LEMMA ProgressIsRanked ==
    ASSUME NEW view, NEW s, NEW r, NEW c, NEW boundary
    PROVE  Progress(view, s, r, c, boundary).value \in 0..3
  BY DEF Progress

LEMMA BestKeyIsOffered ==
    ASSUME NEW stage, stage # {}, \A v \in stage : v.key \in Nat /\ v.value \in 0..3
    PROVE  \E v \in stage : BestKey(stage) = v.key
<1> DEFINE top == {v \in stage : \A w \in stage : v.value >= w.value}
           keys == {v.key : v \in top}
           short == {3 - v.value : v \in stage}
<1>1. short \in SUBSET Nat /\ short # {}
  OBVIOUS
<1>2. PICK n \in short : \A m \in short : n <= m
  <2> HIDE DEF short
  <2> QED BY <1>1, SmallestExists
<1>3. PICK v \in stage : n = 3 - v.value
  BY <1>2
<1>4. v \in top
  <2>1. \A w \in stage : n <= 3 - w.value
    BY <1>2
  <2> QED BY <1>3, <2>1
<1>5. keys \in SUBSET Nat /\ keys # {}
  BY <1>4
<1>6. PICK k \in keys : \A m \in keys : k <= m
  <2> HIDE DEF keys
  <2> QED BY <1>5, SmallestExists
<1>7. \E j \in keys : \A w \in top : j <= w.key
  <2> HIDE DEF top
  <2> QED BY <1>6
<1>8. BestKey(stage) \in keys
  BY <1>7 DEF BestKey
<1>9. \A j \in keys : \E w \in stage : j = w.key
  OBVIOUS
<1> HIDE DEF keys
<1> QED
  BY <1>8, <1>9

LEMMA RecoveryStageIsRanked ==
    ASSUME NEW view, NEW C, NEW s, NEW r, NEW kept, NEW v \in RecoveryStage(view, C, s, r, kept)
    PROVE  v.value \in 0..3 /\ \E c \in C : v.key = c.key
<1> DEFINE line == IF HasLine(s) THEN s ELSE NoSelection("False")
           way == IF r.status = "True" THEN r ELSE NoRecovery("False")
<1>1. PICK c \in C : v = [key    |-> c.key,
                          status |-> Progress(view, line, way, c, FALSE).status,
                          value  |-> Progress(view, line, way, c, FALSE).value]
  BY DEF RecoveryStage, Stage
<1>2. Progress(view, line, way, c, FALSE).value \in 0..3
  <2> HIDE DEF line, way
  <2> QED BY ProgressIsRanked
<1> HIDE DEF line, way
<1> QED
  BY <1>1, <1>2

LEMMA SelectedIsOffered ==
    ASSUME NEW gen, NEW view, NEW C \in SUBSET Candidates, C # {}, NEW q, NEW acted,
           Propose(gen, view, C, q, acted).status = "Selected"
    PROVE  Propose(gen, view, C, q, acted).key \in {c.key : c \in C}
<1> DEFINE completed == AfterCompletion(view, Reconciled(view, q), acted)
           s == Selection(view, completed)
           r == Recovery(view, q)
           kept == Retained(completed, s)
           boundary == AtBoundary(gen, view, completed)
           f0 == LineStage(view, C, s, kept, boundary)
           f1 == RecoveryStage(view, C, s, r, kept)
<1>1. Propose(gen, view, C, q, acted).key = ResolvedKey(f0, f1, C)
  BY DEF Propose, Continued, Judgement, Resolved, InvalidInput
<1>2. \A c \in C : c.key \in Nat
  BY DEF Candidates
<1>3. ASSUME f0 # {} PROVE BestKey(f0) \in {c.key : c \in C}
  <2>1. \A v \in f0 : v.value \in 0..3 /\ \E c \in C : v.key = c.key
    BY ProgressIsRanked DEF LineStage, Stage
  <2> HIDE DEF f0
  <2>2. \E v \in f0 : BestKey(f0) = v.key
    BY <1>2, <1>3, <2>1, BestKeyIsOffered
  <2> QED BY <2>1, <2>2
<1>4. ASSUME f1 # {} PROVE BestKey(f1) \in {c.key : c \in C}
  <2>1. \A v \in f1 : v.value \in 0..3 /\ \E c \in C : v.key = c.key
    <3> HIDE DEF s, r, kept
    <3> QED BY RecoveryStageIsRanked
  <2> HIDE DEF f1
  <2>2. \E v \in f1 : BestKey(f1) = v.key
    BY <1>2, <1>4, <2>1, BestKeyIsOffered
  <2> QED BY <2>1, <2>2
<1>5. (CHOOSE k \in {c.key : c \in C} : \A c \in C : k <= c.key) \in {c.key : c \in C}
  <2> DEFINE keys == {c.key : c \in C}
  <2>1. keys \in SUBSET Nat /\ keys # {}
    BY <1>2
  <2>2. PICK k \in keys : \A m \in keys : k <= m
    <3> HIDE DEF keys
    <3> QED BY <2>1, SmallestExists
  <2>3. \E n \in keys : \A c \in C : n <= c.key
    BY <2>2
  <2> QED BY <2>3
<1>6. Counts(f0) => f0 # {}
  BY DEF Counts
<1>7. Counts(f1) => f1 # {}
  BY DEF Counts
<1> HIDE DEF f0, f1
<1> QED
  BY <1>1, <1>3, <1>4, <1>5, <1>6, <1>7 DEF ResolvedKey, Level

(* No predicate that can be judged makes anything invalid.                  *)
Judgeable(view, C) ==
    /\ \A c \in Condition : view.holds[c] # "Invalid"
    /\ \A c \in C, i \in Intent : c.meets[i] # "Invalid"

LEMMA WhyNoneJudges ==
    ASSUME NEW S, "Invalid" \notin S PROVE WhyNone(S) # "Invalid"
  BY DEF WhyNone

LEMMA HoldsJudges ==
    ASSUME NEW view, NEW C, Judgeable(view, C), NEW conditions \in SUBSET Condition
    PROVE  Holds(view, conditions) # "Invalid"
  BY DEF Judgeable, Holds, Combined

LEMMA GoalJudges ==
    ASSUME NEW view, NEW C, Judgeable(view, C), NEW g \in Goals
    PROVE  GoalEligibility(view, g) # "Invalid"
<1> DEFINE pre == Holds(view, Profile.goals[g].preconditions)
           stop == IF Profile.goals[g].stop = {} THEN "False"
                   ELSE Holds(view, Profile.goals[g].stop)
           worse == Combined({pre, stop} \ {"False"})
<1>1. pre # "Invalid"
  BY HoldsJudges, ProfileFacts
<1>2. stop # "Invalid"
  BY HoldsJudges, ProfileFacts
<1>3. worse # "Invalid"
  <2> HIDE DEF pre, stop
  <2> QED BY <1>1, <1>2 DEF Combined
<1>4. GoalEligibility(view, g) \in {worse, "True", "False"}
  BY DEF GoalEligibility
<1> HIDE DEF worse
<1> QED
  BY <1>3, <1>4

LEMMA SelectionJudges ==
    ASSUME NEW view, NEW C, Judgeable(view, C), NEW q
    PROVE  Selection(view, q).status # "Invalid"
<1>1. "Invalid" \notin {GoalEligibility(view, g) : g \in OpenGoals(q)}
  BY GoalJudges DEF OpenGoals
<1>2. WhyNone({GoalEligibility(view, g) : g \in OpenGoals(q)}) # "Invalid"
  BY <1>1, WhyNoneJudges
<1> QED
  BY <1>2 DEF Selection, NoSelection

LEMMA RecoveryJudges ==
    ASSUME NEW view, NEW C, Judgeable(view, C), NEW q
    PROVE  Recovery(view, q).status # "Invalid"
<1> DEFINE S == {Holds(view, Profile.edges[e].preconditions) : e \in RecoveryCandidates(view, q)}
<1>1. "Invalid" \notin S
  BY HoldsJudges, ProfileFacts DEF RecoveryCandidates
<1>2. WhyNone(S) # "Invalid"
  <2> HIDE DEF S
  <2> QED BY <1>1, WhyNoneJudges
<1> QED
  BY <1>2 DEF Recovery, NoRecovery

LEMMA CompletionJudges ==
    ASSUME NEW view, NEW C, Judgeable(view, C), NEW q, PlanCoherent(q), NEW acted
    PROVE  AfterCompletion(view, q, acted) # None
<1>1. \A p : PlanCoherent(p) => p # None
  BY AbsenceAssumption DEF PlanCoherent, PlanValid
<1>2. Selection(view, q).status # "Invalid"
  BY SelectionJudges
<1> QED
  BY <1>1, <1>2, AchievingCoherent, AdvancingCoherent DEF AfterCompletion

LEMMA MatchesJudges ==
    ASSUME NEW c, \A i \in Intent : c.meets[i] # "Invalid", NEW intents \in SUBSET Intent
    PROVE  Matches(c, intents) # "Invalid"
<1>1. "Invalid" \notin {c.meets[i] : i \in intents}
  OBVIOUS
<1>2. WhyNone({c.meets[i] : i \in intents}) # "Invalid"
  BY <1>1, WhyNoneJudges
<1> QED
  BY <1>2 DEF Matches

LEMMA ProgressJudges ==
    ASSUME NEW view, NEW s, s.status # "Invalid", NEW r, r.status # "Invalid",
           NEW c, \A i \in Intent : c.meets[i] # "Invalid", NEW boundary,
           s.status = "True" /\ s.line # None =>
             \A n \in s.ready : Profile.lines[s.line].nodes[n].intents \subseteq Intent,
           r.status = "True" => Profile.edges[r.edge].intents \subseteq Intent
    PROVE  Progress(view, s, r, c, boundary).status # "Invalid"
<1> DEFINE along == IF s.status = "True" /\ s.line # None
                    THEN {Matches(c, Profile.lines[s.line].nodes[n].intents) : n \in s.ready}
                    ELSE {}
           back == IF r.status = "True" THEN {Matches(c, Profile.edges[r.edge].intents)} ELSE {}
           worst == WhyNone(along \cup back)
<1>1. "Invalid" \notin along
  BY MatchesJudges
<1>2. "Invalid" \notin back
  BY MatchesJudges
<1>3. worst # "Invalid"
  <2> HIDE DEF along, back
  <2> QED BY <1>1, <1>2, WhyNoneJudges
<1>4. Progress(view, s, r, c, boundary).status \in
        {worst, "Unsupported", "NotApplicable", "Supported"}
  <2>1. "Invalid" \notin {s.status, r.status}
    OBVIOUS
  <2> QED BY <2>1 DEF Progress
<1> HIDE DEF worst
<1> QED
  BY <1>3, <1>4

LEMMA LineStageJudges ==
    ASSUME NEW view, NEW C, Judgeable(view, C), NEW q, NEW kept, NEW boundary,
           NEW v \in LineStage(view, C, Selection(view, q), kept, boundary)
    PROVE  v.status # "Invalid"
<1> DEFINE s == Selection(view, q)
           no == NoRecovery("False")
<1>1. PICK c \in C : v = [key    |-> c.key,
                          status |-> Progress(view, s, no, c, boundary).status,
                          value  |-> Progress(view, s, no, c, boundary).value]
  BY DEF LineStage, Stage
<1>2. s.status # "Invalid" /\ no.status = "False"
  BY SelectionJudges DEF NoRecovery
<1>3. s.status = "True" /\ s.line # None =>
        \A n \in s.ready : Profile.lines[s.line].nodes[n].intents \subseteq Intent
  <2>1. s.status = "True" /\ s.line # None =>
          s.line \in Lines /\ s.ready = ReadyNodes(s.line, q.completed)
    BY SelectionSound
  <2> HIDE DEF s
  <2> QED BY <2>1, ProfileFacts DEF ReadyNodes, Node
<1>4. \A i \in Intent : c.meets[i] # "Invalid"
  BY DEF Judgeable
<1> HIDE DEF s, no
<1>5. Progress(view, s, no, c, boundary).status # "Invalid"
  BY <1>2, <1>3, <1>4, ProgressJudges
<1> QED
  BY <1>1, <1>5

LEMMA RecoveryStageJudges ==
    ASSUME NEW view, NEW C, Judgeable(view, C), NEW q, NEW p, NEW kept,
           NEW v \in RecoveryStage(view, C, Selection(view, q), Recovery(view, p), kept)
    PROVE  v.status # "Invalid"
<1> DEFINE s == Selection(view, q)
           r == Recovery(view, p)
           line == IF HasLine(s) THEN s ELSE NoSelection("False")
           way == IF r.status = "True" THEN r ELSE NoRecovery("False")
<1>1. PICK c \in C : v = [key    |-> c.key,
                          status |-> Progress(view, line, way, c, FALSE).status,
                          value  |-> Progress(view, line, way, c, FALSE).value]
  BY DEF RecoveryStage, Stage
<1>2. line.status # "Invalid" /\ way.status # "Invalid"
  <2>1. s.status # "Invalid" /\ r.status # "Invalid"
    BY SelectionJudges, RecoveryJudges
  <2> HIDE DEF s, r
  <2> QED BY <2>1 DEF NoSelection, NoRecovery
<1>3. line.status = "True" /\ line.line # None =>
        \A n \in line.ready : Profile.lines[line.line].nodes[n].intents \subseteq Intent
  <2>1. HasLine(s) => s.line \in Lines /\ s.ready = ReadyNodes(s.line, q.completed)
    BY SelectionSound DEF HasLine
  <2> HIDE DEF s
  <2> QED BY <2>1, ProfileFacts DEF ReadyNodes, Node, NoSelection
<1>4. way.status = "True" => Profile.edges[way.edge].intents \subseteq Intent
  <2>1. r.status = "True" => r.edge \in Edges
    BY RecoverySound
  <2> HIDE DEF r
  <2> QED BY <2>1, ProfileFacts DEF NoRecovery
<1>5. \A i \in Intent : c.meets[i] # "Invalid"
  BY DEF Judgeable
<1> HIDE DEF line, way
<1>6. Progress(view, line, way, c, FALSE).status # "Invalid"
  BY <1>2, <1>3, <1>4, <1>5, ProgressJudges
<1> QED
  BY <1>1, <1>6

(* A teacher with a coherent plan proposes something whenever the profile   *)
(* can judge the decision.                                                  *)
LEMMA ProposalMade ==
    ASSUME NEW gen, NEW view, view.chain \in Nat, NEW C, Judgeable(view, C), NEW q, PlanCoherent(q),
           NEW acted
    PROVE  Propose(gen, view, C, q, acted).status = "Selected"
<1> DEFINE plan1 == AfterCompletion(view, Reconciled(view, q), acted)
           s == Selection(view, plan1)
           r == Recovery(view, q)
           kept == Retained(plan1, s)
           boundary == AtBoundary(gen, view, plan1)
           f0 == LineStage(view, C, s, kept, boundary)
           f1 == RecoveryStage(view, C, s, r, kept)
           next == NextPlan(view, plan1, s, r, Level(f0, f1))
<1>1. plan1 # None /\ PlanCoherent(plan1)
  BY ReconciledCoherent, CompletionJudges, AfterCompletionCoherent
<1>2. s.status # "Invalid" /\ r.status # "Invalid"
  BY SelectionJudges, RecoveryJudges
<1>3. \A v \in f0 : v.status # "Invalid"
  <2> HIDE DEF plan1, kept, boundary
  <2> QED BY LineStageJudges
<1>4. \A v \in f1 : v.status # "Invalid"
  <2> HIDE DEF plan1, kept
  <2> QED BY RecoveryStageJudges
<1>5. PlanValid(next)
  <2>1. r.status = "True" =>
          /\ plan1.achieved = {}
          /\ \E e \in Edges : r.goal = Profile.edges[e].goal /\ r.line = Profile.edges[e].line
    BY RecoveryStartsAnew
  <2>2. PlanCoherent(next)
    <3> HIDE DEF plan1, r, f0, f1
    <3> QED BY <1>1, <2>1, NextPlanCoherent
  <2> QED BY <2>2 DEF PlanCoherent
<1>6. Propose(gen, view, C, q, acted) = Resolved(view, C, plan1, s, r, f0, f1)
  BY <1>1 DEF Propose, Continued, Judgement
<1>7. "Invalid" \notin {s.status, r.status}
  BY <1>2
<1> HIDE DEF plan1, s, r, f0, f1
<1>8. Resolved(view, C, plan1, s, r, f0, f1).status = "Selected"
  BY <1>3, <1>4, <1>5, <1>7 DEF Resolved, next
<1> QED
  BY <1>6, <1>8

----------------------------------------------------------------------------
(***************************************************************************)
(* The run: what is pending and what is known, phase by phase.              *)
(***************************************************************************)

Idle == pending = [p \in Player |-> None] /\ asked = None

(* No session has heard of an action as late as the n-th. *)
KnownBefore(n) == \A p \in Player : last[p] # None => last[p].index < n

(* The session of the player to act, and nobody else, has a proposal for f. *)
Waiting(f) ==
    LET a == f.decision.player
    IN  /\ f \in Frames
        /\ \A p \in Player \ {a} : pending[p] = None
        /\ pending[a] # None
        /\ pending[a].frame = f
        /\ pending[a].base = last[a]
        /\ PlanCoherent(pending[a].plan)
        /\ pending[a].plan.chain = f.decision.view.chain
        /\ asked = IF generation = 2 THEN [player |-> a, decision |-> f.decision] ELSE None
        /\ KnownBefore(f.index)

(* Unless the episode has ended, its boundary comes after n actions. *)
OnTime(n) == ending = None => frame \in Frames /\ frame.index = n

Asked == [index |-> transition.index, decision |-> transition.decision]

RunInv ==
    /\ TypeOK
    /\ PlansAreCoherent
    /\ phase \notin {"proposed", "accepted", "rejected"} => Idle
    /\ phase = "new" => KnownBefore(0)
    /\ phase = "choosing" => frame \in Frames /\ KnownBefore(frame.index)
    /\ phase \in {"proposed", "rejected"} => Waiting(frame)
    /\ phase = "accepted" => /\ transition \in Transitions
                             /\ Waiting(Asked)
                             /\ pending[transition.decision.player].key = transition.key
                             /\ OnTime(transition.index + 1)
    /\ phase = "recording" => /\ transition \in Transitions
                              /\ KnownBefore(transition.index + 1)
                              /\ OnTime(transition.index + 1)

LEMMA DecisionFacts ==
    ASSUME NEW d \in Decisions
    PROVE  /\ d.player \in Player
           /\ d.view \in Views /\ d.view.chain \in Nat
           /\ d.candidates \in SUBSET Candidates /\ d.candidates # {}
  BY DecisionsAssumption DEF Views

LEMMA BoundaryGives ==
    ASSUME NEW n \in Nat, Boundary(n)
    PROVE  /\ ending' \in Endings \cup {None}
           /\ frame' \in Frames \cup {None}
           /\ ending' = None => frame' \in Frames /\ frame'.index = n
<1>1. None \notin Endings
  BY AbsenceAssumption
<1>2. \A d \in Decisions : [index |-> n, decision |-> d] \in Frames
  BY DEF Frames
<1> QED
  BY <1>1, <1>2 DEF Boundary

LEMMA RunInit == Init => RunInv
<1> SUFFICES ASSUME Init PROVE RunInv
  OBVIOUS
<1>1. EmptyPlan \in Plans /\ PlanCoherent(EmptyPlan)
  BY EmptyCoherent DEF PlanCoherent, PlanValid
<1>2. PlansAreCoherent
  BY <1>1 DEF Init, PlansAreCoherent
<1>3. TypeOK
  BY <1>1 DEF Init, TypeOK, Phases
<1>4. Idle /\ KnownBefore(0)
  BY DEF Init, Idle, KnownBefore
<1> QED
  BY <1>2, <1>3, <1>4 DEF Init, RunInv

LEMMA ResetKeeps == RunInv /\ Reset => RunInv'
<1> SUFFICES ASSUME RunInv, Reset PROVE RunInv'
  OBVIOUS
<1>1. /\ ending' \in Endings \cup {None} /\ frame' \in Frames \cup {None}
      /\ ending' = None => frame' \in Frames /\ frame'.index = 0
  BY BoundaryGives DEF Reset
<1>2. TypeOK'
  BY <1>1 DEF RunInv, TypeOK, Reset, RecorderFollows, sessionVars, Phases
<1>3. PlansAreCoherent'
  BY DEF RunInv, PlansAreCoherent, Reset, sessionVars
<1>4. Idle' /\ KnownBefore(0)'
  BY DEF RunInv, Idle, KnownBefore, Reset, sessionVars
<1>5. phase' = IF ending' = None THEN "choosing" ELSE "finalizing"
  BY DEF Reset
<1>6. ending' = None => KnownBefore(frame.index)'
  BY <1>1, <1>4 DEF KnownBefore
<1> QED
  BY <1>1, <1>2, <1>3, <1>4, <1>5, <1>6 DEF RunInv

LEMMA ResetRejectedKeeps == RunInv /\ ResetRejected => RunInv'
<1> SUFFICES ASSUME RunInv, ResetRejected PROVE RunInv'
  OBVIOUS
<1>1. TypeOK'
  BY DEF RunInv, TypeOK, ResetRejected, Return, sessionVars, episodeVars, recorderVars, Phases
<1>2. PlansAreCoherent'
  BY DEF RunInv, PlansAreCoherent, ResetRejected, sessionVars
<1>3. Idle' /\ phase' = "done"
  BY DEF RunInv, Idle, ResetRejected, Return, sessionVars
<1> QED
  BY <1>1, <1>2, <1>3 DEF RunInv

(* The proposal is made for the present frame from the present plan.        *)
LEMMA SelectWaits ==
    ASSUME RunInv, Select, phase' = "proposed"
    PROVE  Waiting(frame)' /\ TypeOK'
<1> DEFINE a == Actor
           prop == Proposal(a)
           p == [frame |-> frame, base |-> last[a], key |-> prop.key, plan |-> prop.plan]
<1>1. frame \in Frames /\ Idle /\ KnownBefore(frame.index) /\ TypeOK /\ PlansAreCoherent
  BY DEF RunInv, Select
<1>2. a \in Player /\ frame.decision \in Decisions /\ frame.index \in Nat
  BY <1>1, DecisionFacts DEF Frames, Actor
<1>3. /\ prop.status = "Selected" /\ pending' = [pending EXCEPT ![a] = p]
      /\ asked' = IF generation = 2 THEN [player |-> a, decision |-> frame.decision] ELSE None
  BY DEF Select, Return
<1>4. /\ ~Outdated(a, frame.index)
      /\ prop = Propose(generation, frame.decision.view, frame.decision.candidates, plan[a],
                        last[a] # None)
  <2> HIDE DEF a
  <2> QED BY <1>3 DEF Proposal, InvalidInput
<1>5. PlanCoherent(plan[a])
  BY <1>1, <1>2 DEF PlansAreCoherent
<1>6. PlanCoherent(prop.plan) /\ prop.plan.chain = frame.decision.view.chain
  <2> HIDE DEF a, prop
  <2> QED BY <1>2, <1>3, <1>4, <1>5, DecisionFacts, ProposalCoherent
<1>7. prop.key \in Nat
  <2> HIDE DEF a, prop
  <2>1. prop.key \in {c.key : c \in frame.decision.candidates}
    BY <1>2, <1>3, <1>4, DecisionFacts, SelectedIsOffered
  <2> QED BY <1>2, <2>1, DecisionFacts DEF Candidates
<1>8. p \in Proposals
  <2>1. prop.plan \in Plans
    BY <1>6 DEF PlanCoherent, PlanValid
  <2>2. last[a] \in Answers \cup {None}
    BY <1>1, <1>2 DEF TypeOK
  <2> HIDE DEF a, prop
  <2> QED BY <1>1, <1>7, <2>1, <2>2 DEF Proposals
<1>9. p # None
  BY <1>8, AbsenceAssumption
<1>10. asked' \in Askings \cup {None}
  <2> HIDE DEF a
  <2> QED BY <1>2, <1>3 DEF Askings
<1>11. pending' \in [Player -> Proposals \cup {None}] /\ pending'[a] = p
       /\ \A x \in Player \ {a} : pending'[x] = None
  <2> HIDE DEF a, p
  <2> QED BY <1>1, <1>2, <1>3, <1>8 DEF TypeOK, Idle
<1>12. UNCHANGED <<generation, plan, last, episodeVars, recorderVars>> /\ result' = result
  BY DEF Select, Return
<1>13. TypeOK'
  <2> HIDE DEF a, p, prop
  <2> QED BY <1>1, <1>10, <1>11, <1>12 DEF TypeOK, episodeVars, recorderVars, Phases
<1>14. Waiting(frame)'
  <2>1. frame' = frame /\ last' = last /\ generation' = generation
    BY <1>12 DEF episodeVars
  <2>2. a = frame.decision.player /\ p.frame = frame /\ p.base = last[a] /\ p.plan = prop.plan
    BY DEF Actor
  <2> HIDE DEF a, p, prop
  <2> QED BY <1>1, <1>3, <1>6, <1>9, <1>11, <2>1, <2>2 DEF Waiting, KnownBefore
<1> QED
  BY <1>13, <1>14

LEMMA SelectKeeps == RunInv /\ Select => RunInv'
<1> SUFFICES ASSUME RunInv, Select PROVE RunInv'
  OBVIOUS
<1>1. PlansAreCoherent'
  BY DEF RunInv, PlansAreCoherent, Select
<1>2. CASE phase' = "proposed"
  BY <1>1, <1>2, SelectWaits DEF RunInv
<1>3. CASE phase' = "done" /\ result' = "Failed" /\ UNCHANGED <<pending, asked>>
  <2>1. TypeOK'
    BY <1>3 DEF RunInv, TypeOK, Select, episodeVars, recorderVars, Phases
  <2>2. Idle'
    BY <1>3 DEF RunInv, Idle, Select
  <2> QED BY <1>1, <1>3, <2>1, <2>2 DEF RunInv
<1> QED
  BY <1>2, <1>3 DEF Select, Return

LEMMA StepAcceptedKeeps == RunInv /\ StepAccepted => RunInv'
<1> SUFFICES ASSUME RunInv, StepAccepted PROVE RunInv'
  OBVIOUS
<1> DEFINE a == frame.decision.player
           t == [index |-> frame.index, decision |-> frame.decision, key |-> pending[a].key]
<1>1. frame \in Frames /\ Waiting(frame) /\ TypeOK
  BY DEF RunInv, StepAccepted, Waiting
<1>2. a \in Player /\ frame.decision \in Decisions /\ frame.index \in Nat
  BY <1>1, DecisionFacts DEF Frames
<1>3. pending[a].key \in Nat
  <2>1. pending[a] \in Proposals
    BY <1>1, <1>2 DEF TypeOK, Waiting
  <2> QED BY <2>1 DEF Proposals
<1>4. transition' = t /\ t \in Transitions /\ t.index = frame.index /\ t.decision = frame.decision
      /\ t.key = pending[a].key
  <2> HIDE DEF a
  <2> QED BY <1>2, <1>3 DEF StepAccepted, Actor, Transitions, a
<1>5. /\ ending' \in Endings \cup {None} /\ frame' \in Frames \cup {None}
      /\ ending' = None => frame' \in Frames /\ frame'.index = frame.index + 1
  BY <1>2, BoundaryGives DEF StepAccepted
<1>6. accepted' \in Seq(Accepted)
  <2>1. [player |-> a, key |-> pending[a].key] \in Accepted
    BY <1>2, <1>3 DEF Accepted
  <2> HIDE DEF a
  <2> QED BY <1>1, <2>1 DEF TypeOK, StepAccepted, Actor, a
<1>7. UNCHANGED <<generation, plan, last, pending, asked, recorded, closure, result>>
      /\ phase' = "accepted"
  BY DEF StepAccepted, sessionVars, recorderVars
<1>8. TypeOK'
  <2> HIDE DEF t
  <2> QED BY <1>1, <1>4, <1>5, <1>6, <1>7 DEF TypeOK, Phases
<1>9. Asked' = frame
  <2>1. frame = [index |-> frame.index, decision |-> frame.decision]
    BY <1>1 DEF Frames
  <2>2. transition'.index = frame.index /\ transition'.decision = frame.decision
    BY <1>4
  <2> QED BY <2>1, <2>2 DEF Asked
<1>10. Waiting(Asked)'
  BY <1>1, <1>7, <1>9 DEF Waiting, KnownBefore
<1>11. transition' \in Transitions /\ OnTime(transition.index + 1)'
       /\ pending'[transition'.decision.player].key = transition'.key
  <2> HIDE DEF t
  <2> QED BY <1>4, <1>5, <1>7 DEF OnTime
<1>12. PlansAreCoherent'
  BY <1>7 DEF RunInv, PlansAreCoherent
<1> QED
  BY <1>7, <1>8, <1>10, <1>11, <1>12 DEF RunInv

LEMMA StepRejectedKeeps == RunInv /\ StepRejected => RunInv'
<1> SUFFICES ASSUME RunInv, StepRejected PROVE RunInv'
  OBVIOUS
<1>1. UNCHANGED <<generation, plan, last, pending, asked, frame, ending, accepted, transition,
                  recorded, closure, result>>
      /\ phase = "proposed" /\ phase' = "rejected"
  BY DEF StepRejected, sessionVars, episodeVars, recorderVars
<1>2. TypeOK' /\ PlansAreCoherent'
  BY <1>1 DEF RunInv, TypeOK, PlansAreCoherent, Phases
<1>3. Waiting(frame)'
  BY <1>1 DEF RunInv, Waiting, KnownBefore
<1> QED
  BY <1>1, <1>2, <1>3 DEF RunInv

(* What was accepted is what the player's session proposed, and it has      *)
(* heard of nothing since.                                                  *)
LEMMA AcceptedFits ==
    ASSUME RunInv, phase = "accepted"
    PROVE  /\ CommitDue /\ CommitFits(Teller)
           /\ Teller = transition.decision.player /\ Teller \in Player
<1> DEFINE a == transition.decision.player
<1>1. /\ transition \in Transitions /\ Waiting(Asked) /\ TypeOK /\ PlansAreCoherent
      /\ pending[a].key = transition.key
  BY DEF RunInv
<1>2. a \in Player /\ transition.index \in Nat /\ transition.decision \in Decisions
  BY <1>1, DecisionFacts DEF Transitions
<1>3. Asked.index = transition.index /\ Asked.decision = transition.decision
      /\ Asked.decision.player = a
  BY DEF Asked
<1>4. /\ pending[a] # None /\ pending[a].frame = Asked /\ pending[a].base = last[a]
      /\ PlanCoherent(pending[a].plan)
      /\ pending[a].plan.chain = transition.decision.view.chain
      /\ asked = IF generation = 2 THEN [player |-> a, decision |-> transition.decision] ELSE None
      /\ KnownBefore(transition.index)
  <2> HIDE DEF a
  <2> QED BY <1>1, <1>3 DEF Waiting
<1>5. Teller = a
  <2> HIDE DEF a
  <2> QED BY <1>4 DEF Teller, a
<1>6. CommitDue
  <2> HIDE DEF a
  <2>1. generation = 2 => asked \in Askings
    BY <1>2, <1>4 DEF Askings
  <2>2. generation = 2 => asked # None
    BY <2>1, AbsenceAssumption
  <2> QED BY <1>4, <2>2 DEF CommitDue
<1>7. ~Outdated(a, transition.index)
  <2>1. last[a] # None => last[a].index \in Nat /\ last[a].index < transition.index
    BY <1>1, <1>2, <1>4 DEF KnownBefore, TypeOK, Answers
  <2> HIDE DEF a
  <2> QED BY <1>2, <2>1 DEF Outdated
<1>8. PlanValid(plan[a])
  BY <1>1, <1>2 DEF PlansAreCoherent, PlanCoherent
<1>9. CommitFits(a)
  <2> HIDE DEF a
  <2> QED BY <1>3, <1>4, <1>7, <1>8, <1>1, <1>3 DEF CommitFits, PlanCoherent, a
<1> QED
  BY <1>2, <1>5, <1>6, <1>9

LEMMA CommitKeeps == RunInv /\ Commit => RunInv'
<1> SUFFICES ASSUME RunInv, Commit PROVE RunInv'
  OBVIOUS
<1> DEFINE a == transition.decision.player
<1>1. phase = "accepted"
  BY DEF Commit
<1>2. CommitDue /\ CommitFits(a) /\ Teller = a /\ a \in Player
  BY <1>1, AcceptedFits
<1>3. /\ transition \in Transitions /\ Waiting(Asked) /\ TypeOK /\ PlansAreCoherent
      /\ OnTime(transition.index + 1)
  BY <1>1 DEF RunInv
<1>4. /\ pending' = [pending EXCEPT ![a] = None] /\ asked' = None
      /\ plan' = [plan EXCEPT ![a] = pending[a].plan]
      /\ last' = [last EXCEPT ![a] = [index |-> transition.index, key |-> transition.key]]
      /\ phase' = "recording" /\ result' = result
      /\ UNCHANGED <<generation, frame, ending, accepted, transition, recorded, closure>>
  <2> HIDE DEF a
  <2> QED BY <1>2 DEF Commit, Committed, Return, episodeVars, recorderVars
<1>5. transition.index \in Nat /\ transition.key \in Nat
  BY <1>3 DEF Transitions
<1>6. PlanCoherent(pending[a].plan) /\ (\A p \in Player \ {a} : pending[p] = None)
      /\ KnownBefore(transition.index)
  BY <1>3 DEF Waiting, Asked
<1>7. pending[a].plan \in Plans
  BY <1>6 DEF PlanCoherent, PlanValid
<1> HIDE DEF a
<1>8. Idle'
  BY <1>2, <1>3, <1>4, <1>6 DEF Idle, TypeOK
<1>9. PlansAreCoherent'
  BY <1>2, <1>3, <1>4, <1>6 DEF PlansAreCoherent, TypeOK
<1>10. [index |-> transition.index, key |-> transition.key] \in Answers
  BY <1>5 DEF Answers
<1>11. TypeOK'
  <2>1. /\ plan' \in [Player -> Plans] /\ last' \in [Player -> Answers \cup {None}]
        /\ pending' \in [Player -> Proposals \cup {None}]
    BY <1>2, <1>3, <1>4, <1>7, <1>10 DEF TypeOK
  <2> QED BY <1>3, <1>4, <2>1 DEF TypeOK, Phases
<1>12. KnownBefore(transition.index + 1)'
  <2>1. \A p \in Player : last[p] # None => last[p].index \in Nat
    BY <1>3 DEF TypeOK, Answers
  <2>2. ASSUME NEW p \in Player, last'[p] # None PROVE last'[p].index < transition.index + 1
    <3>1. CASE p = a
      <4>1. last'[p] = [index |-> transition.index, key |-> transition.key]
        BY <1>2, <1>3, <1>4, <3>1 DEF TypeOK
      <4> QED BY <1>5, <4>1
    <3>2. CASE p # a
      <4>1. last'[p] = last[p]
        BY <1>2, <1>3, <1>4, <3>2 DEF TypeOK
      <4> QED BY <1>5, <1>6, <2>1, <2>2, <4>1 DEF KnownBefore
    <3> QED BY <3>1, <3>2
  <2> QED BY <1>4, <2>2 DEF KnownBefore
<1>13. OnTime(transition.index + 1)' /\ transition' \in Transitions
  BY <1>3, <1>4 DEF OnTime
<1> QED
  BY <1>4, <1>8, <1>9, <1>11, <1>12, <1>13 DEF RunInv

LEMMA RecordKeeps == RunInv /\ Record => RunInv'
<1> SUFFICES ASSUME RunInv, Record PROVE RunInv'
  OBVIOUS
<1>1. /\ UNCHANGED <<generation, plan, last, pending, asked, frame, ending, accepted, result>>
      /\ closure' = ending /\ recorded' = recorded + 1 /\ transition' = None
      /\ phase' = IF ending = None THEN "choosing" ELSE "finalizing"
  BY DEF Record, sessionVars
<1>2. /\ Idle /\ transition \in Transitions /\ TypeOK
      /\ KnownBefore(transition.index + 1) /\ OnTime(transition.index + 1)
  BY DEF RunInv, Record
<1>3. TypeOK' /\ PlansAreCoherent'
  BY <1>1, <1>2 DEF RunInv, TypeOK, PlansAreCoherent, Phases
<1>4. Idle'
  BY <1>1, <1>2 DEF Idle
<1>5. ending = None => frame' \in Frames /\ KnownBefore(frame.index)'
  BY <1>1, <1>2 DEF OnTime, KnownBefore
<1> QED
  BY <1>1, <1>3, <1>4, <1>5 DEF RunInv

LEMMA RecordRefusedKeeps == RunInv /\ RecordRefused => RunInv'
<1> SUFFICES ASSUME RunInv, RecordRefused PROVE RunInv'
  OBVIOUS
<1>1. /\ UNCHANGED <<generation, plan, last, pending, asked, frame, ending, accepted, transition,
                     recorded>>
      /\ closure' = "Failed" /\ phase = "recording" /\ phase' = "done" /\ result' = "Failed"
  BY DEF RecordRefused, Return, sessionVars, episodeVars
<1>2. TypeOK' /\ PlansAreCoherent'
  BY <1>1 DEF RunInv, TypeOK, PlansAreCoherent, Phases, Endings
<1>3. Idle'
  BY <1>1 DEF RunInv, Idle
<1> QED
  BY <1>1, <1>2, <1>3 DEF RunInv

LEMMA RejectKeeps == RunInv /\ Reject => RunInv'
<1> SUFFICES ASSUME RunInv, Reject PROVE RunInv'
  OBVIOUS
<1> DEFINE a == frame.decision.player
<1>1. Waiting(frame) /\ TypeOK
  BY DEF RunInv, Reject
<1>2. a \in Player
  BY <1>1, DecisionFacts DEF Waiting, Frames
<1>3. /\ pending' = [pending EXCEPT ![a] = None] /\ asked' = None
      /\ UNCHANGED <<generation, plan, last, accepted, transition, recorded>>
      /\ ending' = "Interrupted" /\ frame' = None /\ closure' = "Interrupted"
      /\ phase' = "done" /\ result' = "Quarantined"
  BY DEF Reject, Forgotten, Actor, RecorderFollows, Return
<1>4. Idle'
  BY <1>1, <1>2, <1>3 DEF Idle, Waiting, TypeOK
<1>5. pending' \in [Player -> Proposals \cup {None}]
  BY <1>4 DEF Idle
<1>6. TypeOK' /\ PlansAreCoherent'
  <2> HIDE DEF a
  <2> QED BY <1>1, <1>3, <1>5 DEF RunInv, TypeOK, PlansAreCoherent, Phases, Endings
<1> QED
  BY <1>3, <1>4, <1>6 DEF RunInv

LEMMA FinalizeKeeps ==
    ASSUME NEW admitted \in BOOLEAN, RunInv, Finalize(admitted)
    PROVE  RunInv'
<1>1. /\ UNCHANGED <<generation, plan, last, pending, asked, frame, ending, accepted, transition,
                     recorded, closure>>
      /\ phase = "finalizing" /\ phase' = "done" /\ result' \in {"Collected", "Failed"}
  BY DEF Finalize, Return, sessionVars, episodeVars, recorderVars
<1>2. TypeOK' /\ PlansAreCoherent'
  BY <1>1 DEF RunInv, TypeOK, PlansAreCoherent, Phases
<1>3. Idle'
  BY <1>1 DEF RunInv, Idle
<1> QED
  BY <1>1, <1>2, <1>3 DEF RunInv

LEMMA UnchangedKeeps == RunInv /\ UNCHANGED vars => RunInv'
  BY DEF RunInv, TypeOK, PlansAreCoherent, Idle, KnownBefore, Waiting, OnTime, Asked,
         vars, sessionVars, episodeVars, recorderVars

LEMMA RunNext == RunInv /\ [Next]_vars => RunInv'
<1> SUFFICES ASSUME RunInv, [Next]_vars PROVE RunInv'
  OBVIOUS
<1>1. CASE Reset            BY <1>1, ResetKeeps
<1>2. CASE ResetRejected    BY <1>2, ResetRejectedKeeps
<1>3. CASE Select           BY <1>3, SelectKeeps
<1>4. CASE StepAccepted     BY <1>4, StepAcceptedKeeps
<1>5. CASE StepRejected     BY <1>5, StepRejectedKeeps
<1>6. CASE Commit           BY <1>6, CommitKeeps
<1>7. CASE Record           BY <1>7, RecordKeeps
<1>8. CASE RecordRefused    BY <1>8, RecordRefusedKeeps
<1>9. CASE Reject           BY <1>9, RejectKeeps
<1>10. CASE \E admitted \in BOOLEAN : Finalize(admitted)
  BY <1>10, FinalizeKeeps
<1>11. CASE UNCHANGED vars  BY <1>11, UnchangedKeeps
<1> QED
  BY <1>1, <1>2, <1>3, <1>4, <1>5, <1>6, <1>7, <1>8, <1>9, <1>10, <1>11
     DEF Next, RunStep, RunAgain

THEOREM RunInvariant == Spec => []RunInv
<1>1. Init => RunInv
  BY RunInit
<1>2. RunInv /\ [Next]_vars => RunInv'
  BY RunNext
<1> QED
  BY <1>1, <1>2, PTL DEF Spec

(* TypeOK: the plans, proposals and actions of a run are of their types.    *)
THEOREM TypeCorrect == Spec => []TypeOK
<1>1. RunInv => TypeOK
  BY DEF RunInv
<1> QED
  BY <1>1, RunInvariant, PTL

(* PlansAreCoherent: no plan a teacher adopts contradicts its profile,      *)
(* however long the episode and whatever is seen in it.                     *)
THEOREM PlansStayCoherent == Spec => []PlansAreCoherent
<1>1. RunInv => PlansAreCoherent
  BY DEF RunInv
<1> QED
  BY <1>1, RunInvariant, PTL

(* CommitNeverRefused: what the environment accepts, the session that       *)
(* proposed it takes over.                                                  *)
THEOREM CommitsAreTaken == Spec => []CommitNeverRefused
<1>1. RunInv => CommitNeverRefused
  BY AcceptedFits DEF CommitNeverRefused
<1> QED
  BY <1>1, RunInvariant, PTL

(* OneOpenProposal: a settled action leaves no proposal behind.             *)
THEOREM ProposalsAreSettled == Spec => []OneOpenProposal
<1>1. RunInv => OneOpenProposal
  <2> SUFFICES ASSUME RunInv, NEW p \in Player, pending[p] # None
               PROVE  /\ phase \in {"proposed", "accepted", "rejected"}
                      /\ p = IF phase = "accepted" THEN Teller ELSE Actor
    BY DEF OneOpenProposal
  <2>1. phase \in {"proposed", "accepted", "rejected"}
    BY DEF RunInv, Idle
  <2>2. CASE phase = "accepted"
    <3>1. Waiting(Asked) /\ Asked.decision = transition.decision
      BY <2>2 DEF RunInv, Asked
    <3>2. p = transition.decision.player
      BY <3>1 DEF Waiting
    <3> QED BY <2>2, <3>2, AcceptedFits
  <2>3. CASE phase # "accepted"
    <3>1. Waiting(frame)
      BY <2>1, <2>3 DEF RunInv
    <3> QED BY <2>1, <2>3, <3>1 DEF Waiting, Actor
  <2> QED BY <2>2, <2>3
<1> QED
  BY <1>1, RunInvariant, PTL

(* SelectsWhatItCanJudge: a teacher's own plan never keeps it from choosing.*)
THEOREM TeachersAlwaysSelect == Spec => []SelectsWhatItCanJudge
<1>1. RunInv => SelectsWhatItCanJudge
  <2> SUFFICES ASSUME RunInv, phase = "choosing", Judged(frame.decision)
               PROVE  MaySelect /\ Proposal(Actor).status = "Selected"
    BY DEF SelectsWhatItCanJudge
  <2> DEFINE d == frame.decision
             a == d.player
  <2>1. frame \in Frames /\ Idle /\ KnownBefore(frame.index) /\ TypeOK /\ PlansAreCoherent
    BY DEF RunInv
  <2>2. d \in Decisions /\ frame.index \in Nat /\ a \in Player /\ d.view.chain \in Nat
    BY <2>1, DecisionFacts DEF Frames
  <2>3. MaySelect
    BY <2>1, <2>2 DEF MaySelect, Idle, Actor
  <2>4. ~Outdated(a, frame.index)
    <3>1. last[a] # None => last[a].index \in Nat /\ last[a].index < frame.index
      BY <2>1, <2>2 DEF TypeOK, Answers, KnownBefore
    <3> HIDE DEF a
    <3> QED BY <2>2, <3>1 DEF Outdated
  <2>5. Judgeable(d.view, d.candidates)
    BY DEF Judged, Judgeable
  <2>6. PlanCoherent(plan[a])
    BY <2>1, <2>2 DEF PlansAreCoherent
  <2>7. Propose(generation, d.view, d.candidates, plan[a], last[a] # None).status = "Selected"
    <3> HIDE DEF d, a
    <3> QED BY <2>2, <2>5, <2>6, ProposalMade
  <2> QED BY <2>3, <2>4, <2>7 DEF Proposal, Actor
<1> QED
  BY <1>1, RunInvariant, PTL

----------------------------------------------------------------------------
(***************************************************************************)
(* What a session knows is what the environment accepted.                   *)
(***************************************************************************)

(* A session knows the last of the first n accepted actions that is its own.*)
KnowsUpTo(p, n) ==
    \/ /\ last[p] = None /\ plan[p] = EmptyPlan
       /\ \A i \in 1..n : accepted[i].player # p
    \/ \E i \in 1..n :
          /\ last[p] = [index |-> i - 1, key |-> accepted[i].key]
          /\ accepted[i].player = p
          /\ \A j \in (i + 1)..n : accepted[j].player # p

Knowing(n) == \A p \in Player : KnowsUpTo(p, n)

KnowInv ==
    /\ phase # "accepted" => Knowing(Len(accepted))
    /\ phase = "accepted" => Knowing(Len(accepted) - 1)
    /\ phase = "new" => accepted = <<>>
    /\ phase \in {"choosing", "proposed", "rejected"} => frame.index = Len(accepted)
    /\ phase = "accepted" =>
         /\ Len(accepted) = transition.index + 1
         /\ accepted[Len(accepted)] = [player |-> transition.decision.player,
                                       key    |-> transition.key]
    /\ phase = "recording" => Len(accepted) = transition.index + 1

LEMMA KnowInit == Init => KnowInv
<1> SUFFICES ASSUME Init PROVE KnowInv
  OBVIOUS
<1>1. accepted = <<>> /\ Len(accepted) = 0 /\ phase = "new"
  BY DEF Init
<1>2. Knowing(0)
  BY DEF Init, Knowing, KnowsUpTo
<1> QED
  BY <1>1, <1>2 DEF KnowInv

LEMMA KnowAccepted == RunInv /\ KnowInv /\ StepAccepted => KnowInv'
<1> SUFFICES ASSUME RunInv, KnowInv, StepAccepted PROVE KnowInv'
  OBVIOUS
<1> DEFINE a == frame.decision.player
           new == [player |-> a, key |-> pending[a].key]
<1>0. PICK n \in Nat : n = Len(accepted)
  BY DEF RunInv, TypeOK
<1>1. /\ phase = "proposed" /\ phase' = "accepted" /\ accepted' = Append(accepted, new)
      /\ transition' = [index |-> frame.index, decision |-> frame.decision, key |-> pending[a].key]
      /\ last' = last /\ plan' = plan
  BY DEF StepAccepted, Actor, sessionVars
<1>2. accepted \in Seq(Accepted) /\ Waiting(frame) /\ pending \in [Player -> Proposals \cup {None}]
  BY <1>1 DEF RunInv, TypeOK
<1>3. new \in Accepted
  <2>1. a \in Player
    BY <1>2, DecisionFacts DEF Waiting, Frames
  <2>2. pending[a] \in Proposals
    BY <1>2, <2>1 DEF Waiting
  <2> QED BY <2>1, <2>2 DEF Proposals, Accepted
<1>4. frame.index = n /\ Knowing(n)
  BY <1>0, <1>1, <1>2 DEF KnowInv
<1>5. /\ Len(accepted') = n + 1 /\ accepted'[n + 1] = new
      /\ \A i \in 1..n : accepted'[i] = accepted[i]
  <2> HIDE DEF new
  <2> QED BY <1>0, <1>1, <1>2, <1>3
<1>6. Knowing(n)'
  <2> SUFFICES ASSUME NEW p \in Player PROVE KnowsUpTo(p, n)'
    BY <1>1 DEF Knowing
  <2>1. KnowsUpTo(p, n)
    BY <1>4 DEF Knowing
  <2>2. last' = last /\ plan' = plan /\ \A i \in 1..n : accepted'[i] = accepted[i]
    BY <1>1, <1>5
  <2>3. CASE \E i \in 1..n : /\ last[p] = [index |-> i - 1, key |-> accepted[i].key]
                            /\ accepted[i].player = p
                            /\ \A j \in (i + 1)..n : accepted[j].player # p
    <3>1. PICK i \in 1..n : /\ last[p] = [index |-> i - 1, key |-> accepted[i].key]
                            /\ accepted[i].player = p
                            /\ \A j \in (i + 1)..n : accepted[j].player # p
      BY <2>3
    <3>2. \A j \in (i + 1)..n : j \in 1..n
      OBVIOUS
    <3>3. /\ last'[p] = [index |-> i - 1, key |-> accepted'[i].key]
          /\ accepted'[i].player = p
          /\ \A j \in (i + 1)..n : accepted'[j].player # p
      BY <2>2, <3>1, <3>2
    <3> QED BY <3>3 DEF KnowsUpTo
  <2>4. CASE /\ last[p] = None /\ plan[p] = EmptyPlan
             /\ \A i \in 1..n : accepted[i].player # p
    BY <2>2, <2>4 DEF KnowsUpTo
  <2> QED BY <2>1, <2>3, <2>4 DEF KnowsUpTo
<1> QED
  BY <1>1, <1>4, <1>5, <1>6 DEF KnowInv

LEMMA KnowCommitted == RunInv /\ KnowInv /\ Commit => KnowInv'
<1> SUFFICES ASSUME RunInv, KnowInv, Commit PROVE KnowInv'
  OBVIOUS
<1> DEFINE a == transition.decision.player
           answer == [index |-> transition.index, key |-> transition.key]
<1>1. /\ phase = "accepted" /\ phase' = "recording"
      /\ plan' = [plan EXCEPT ![a] = pending[a].plan] /\ last' = [last EXCEPT ![a] = answer]
      /\ accepted' = accepted /\ transition' = transition /\ a \in Player
  <2>1. phase = "accepted"
    BY DEF Commit
  <2>2. CommitDue /\ CommitFits(a) /\ Teller = a /\ a \in Player
    BY <2>1, AcceptedFits
  <2> HIDE DEF a
  <2> QED BY <2>1, <2>2 DEF Commit, Committed, Return, episodeVars
<1>2. PICK n \in Nat : n = transition.index
  BY <1>1 DEF RunInv, Transitions
<1>3. /\ Len(accepted) = n + 1 /\ Knowing(n)
      /\ accepted[n + 1].player = a /\ accepted[n + 1].key = transition.key
  BY <1>1, <1>2 DEF KnowInv
<1>4. plan \in [Player -> Plans] /\ last \in [Player -> Answers \cup {None}]
  BY DEF RunInv, TypeOK
<1>5. Knowing(n + 1)'
  <2> SUFFICES ASSUME NEW p \in Player PROVE KnowsUpTo(p, n + 1)'
    BY DEF Knowing
  <2>1. CASE p = a
    <3>1. last'[p] = [index |-> (n + 1) - 1, key |-> accepted'[n + 1].key]
      BY <1>1, <1>2, <1>3, <1>4, <2>1
    <3>2. accepted'[n + 1].player = p /\ \A j \in ((n + 1) + 1)..(n + 1) : accepted'[j].player # p
      BY <1>1, <1>3, <2>1
    <3> HIDE DEF a
    <3> QED BY <3>1, <3>2 DEF KnowsUpTo
  <2>2. CASE p # a
    <3>1. last'[p] = last[p] /\ plan'[p] = plan[p]
      BY <1>1, <1>4, <2>2
    <3>2. accepted'[n + 1].player # p
      BY <1>1, <1>3, <2>2
    <3>3. KnowsUpTo(p, n)
      BY <1>3 DEF Knowing
    <3>4. CASE \E i \in 1..n : /\ last[p] = [index |-> i - 1, key |-> accepted[i].key]
                              /\ accepted[i].player = p
                              /\ \A j \in (i + 1)..n : accepted[j].player # p
      <4>1. PICK i \in 1..n : /\ last[p] = [index |-> i - 1, key |-> accepted[i].key]
                              /\ accepted[i].player = p
                              /\ \A j \in (i + 1)..n : accepted[j].player # p
        BY <3>4
      <4>2. i \in 1..(n + 1) /\ \A j \in (i + 1)..(n + 1) : j \in (i + 1)..n \/ j = n + 1
        OBVIOUS
      <4>3. /\ last'[p] = [index |-> i - 1, key |-> accepted'[i].key]
            /\ accepted'[i].player = p
            /\ \A j \in (i + 1)..(n + 1) : accepted'[j].player # p
        BY <1>1, <3>1, <3>2, <4>1, <4>2
      <4> QED BY <4>2, <4>3 DEF KnowsUpTo
    <3>5. CASE /\ last[p] = None /\ plan[p] = EmptyPlan
               /\ \A i \in 1..n : accepted[i].player # p
      <4>1. \A j \in 1..(n + 1) : j \in 1..n \/ j = n + 1
        OBVIOUS
      <4>2. \A j \in 1..(n + 1) : accepted'[j].player # p
        BY <1>1, <3>2, <3>5, <4>1
      <4> QED BY <3>1, <3>5, <4>2 DEF KnowsUpTo
    <3> QED BY <3>3, <3>4, <3>5 DEF KnowsUpTo
  <2> QED BY <2>1, <2>2
<1> QED
  BY <1>1, <1>2, <1>3, <1>5 DEF KnowInv

(* No other step tells a session anything or adds an action.                *)
LEMMA KnowOthers ==
    ASSUME RunInv, KnowInv,
           \/ Reset \/ ResetRejected \/ Select \/ StepRejected \/ Record \/ RecordRefused \/ Reject
           \/ (\E admitted \in BOOLEAN : Finalize(admitted)) \/ UNCHANGED vars
    PROVE  KnowInv'
<1>1. UNCHANGED <<plan, last, accepted>>
  BY DEF Reset, ResetRejected, Select, StepRejected, Record, RecordRefused, Reject, Forgotten,
         Finalize, Return, vars, sessionVars, episodeVars
<1>2. \A n : Knowing(n) => Knowing(n)'
  BY <1>1 DEF Knowing, KnowsUpTo
<1>3. Len(accepted') = Len(accepted)
  BY <1>1
<1>4. CASE Reset
  <2>1. phase = "new" /\ phase' \in {"choosing", "finalizing"}
        /\ (phase' = "choosing" <=> ending' = None)
    BY <1>4 DEF Reset
  <2>2. ending' = None => frame'.index = 0
    BY <1>4, BoundaryGives DEF Reset
  <2>3. Knowing(Len(accepted))' /\ Len(accepted) = 0
    BY <1>1, <1>2, <2>1 DEF KnowInv
  <2> QED BY <1>3, <2>1, <2>2, <2>3 DEF KnowInv
<1>5. CASE Record
  <2>1. phase = "recording" /\ phase' \in {"choosing", "finalizing"} /\ frame' = frame
        /\ (phase' = "choosing" <=> ending = None)
    BY <1>5 DEF Record
  <2>2. ending = None => frame.index = transition.index + 1
    BY <2>1 DEF RunInv, OnTime
  <2>3. Knowing(Len(accepted))' /\ Len(accepted) = transition.index + 1
    BY <1>1, <1>2, <2>1 DEF KnowInv
  <2> QED BY <1>3, <2>1, <2>2, <2>3 DEF KnowInv
<1>6. CASE Select \/ StepRejected
  <2>1. /\ frame' = frame /\ phase \in {"choosing", "proposed"}
        /\ phase' \in {"proposed", "rejected", "done"}
    BY <1>6 DEF Select, StepRejected, Return, episodeVars
  <2>2. Knowing(Len(accepted))'
    BY <1>1, <1>2, <2>1 DEF KnowInv
  <2> QED BY <1>1, <1>3, <2>1, <2>2 DEF KnowInv
<1>7. CASE \/ ResetRejected \/ RecordRefused \/ Reject
           \/ (\E admitted \in BOOLEAN : Finalize(admitted))
  <2>1. phase # "accepted" /\ phase' = "done"
    BY <1>7 DEF ResetRejected, RecordRefused, Reject, Finalize, Return
  <2>2. Knowing(Len(accepted))'
    BY <1>1, <1>2, <2>1 DEF KnowInv
  <2> QED BY <1>3, <2>1, <2>2 DEF KnowInv
<1>8. CASE UNCHANGED vars
  <2>1. UNCHANGED <<phase, frame, transition, accepted>>
    BY <1>8 DEF vars, episodeVars
  <2>2. \A n : Knowing(n)' <=> Knowing(n)
    BY <1>1 DEF Knowing, KnowsUpTo
  <2> QED BY <2>1, <2>2 DEF KnowInv
<1> QED
  BY <1>4, <1>5, <1>6, <1>7, <1>8

THEOREM KnowInvariant == Spec => []KnowInv
<1>1. Init => KnowInv
  BY KnowInit
<1>2. RunInv /\ KnowInv /\ [Next]_vars => KnowInv'
  BY KnowAccepted, KnowCommitted, KnowOthers DEF Next, RunStep, RunAgain
<1> QED
  BY <1>1, <1>2, RunInvariant, PTL DEF Spec

(* SessionsKnowTheirActions: a session's last accepted action is the last   *)
(* the environment accepted from its player, or there was none.             *)
THEOREM SessionsKnow == Spec => []SessionsKnowTheirActions
<1>1. KnowInv => SessionsKnowTheirActions
  <2> SUFFICES ASSUME KnowInv PROVE Knowing(Told)
    BY DEF SessionsKnowTheirActions, Knowing, KnowsUpTo
  <2> QED BY DEF KnowInv, Told
<1> QED
  BY <1>1, KnowInvariant, PTL

============================================================================
