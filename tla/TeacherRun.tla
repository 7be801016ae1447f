------------------------------ MODULE TeacherRun ------------------------------
(***************************************************************************)
(* Two teachers play one recorded episode: a session for each player (its   *)
(* plan, and the proposal it waits to hear of), the runner that asks the    *)
(* acting player's session, steps the environment and passes the outcome to *)
(* the session and to the recorder, and as much of the environment and the  *)
(* recorder as they need.  The first generation (teacher_runner.cpp) keeps  *)
(* the proposal in the session alone, the second (teacher_runner_v3.cpp)    *)
(* also in the runner.                                                      *)
(***************************************************************************)
EXTENDS TeacherStrategy, Sequences

CONSTANTS
    Decisions,     \* what an episode may ask: [player, view, candidates]
    MaxActions     \* the action budget of the run control

Player == 0..1

ASSUME DecisionsAssumption ==
    /\ MaxActions \in Nat
    /\ \A d \in Decisions :
        /\ d.player \in Player
        /\ d.view \in Views
        /\ d.candidates \in (SUBSET Candidates) \ {{}}
        /\ IsFiniteSet(d.candidates)
        /\ \A c1, c2 \in d.candidates : c1.key = c2.key => c1 = c2

VARIABLES
    generation, \* 1 or 2
    plan,       \* state_ of each session
    last,       \* the accepted action each session knows of: [index, key]
    pending,    \* pending_ of each session
    phase,      \* where run_impl is
    asked,      \* the proposal the second runner keeps: [player, decision]
    frame,      \* the environment's boundary: [index, decision], None at an end
    ending,     \* how the episode ended
    accepted,   \* the actions the environment accepted: [player, key]
    transition, \* the last of them while the runner deals with it
    recorded,   \* how many records the recorder holds
    closure,    \* its closure
    result      \* what the run returned

sessionVars == <<plan, last, pending>>
episodeVars == <<frame, ending, accepted, transition>>
recorderVars == <<recorded, closure>>
vars == <<generation, sessionVars, phase, asked, episodeVars, recorderVars, result>>

Endings == {"Terminal", "Interrupted", "Failed"}
Phases == {"new", "choosing", "proposed", "accepted", "rejected", "recording", "finalizing", "done"}
Answers == [index : Nat, key : Nat]
Frames == [index : Nat, decision : Decisions]
Accepted == [player : Player, key : Nat]
Transitions == [index : Nat, decision : Decisions, key : Nat]
Proposals == [frame : Frames, base : Answers \cup {None}, key : Nat, plan : Plans]
Askings == [player : Player, decision : Decisions]

(* None is none of what it stands for the absence of. *)
ASSUME AbsenceAssumption ==
    None \notin Plans \cup Answers \cup Frames \cup Proposals \cup Askings \cup Endings

TypeOK ==
    /\ generation \in {1, 2}
    /\ plan \in [Player -> Plans]
    /\ last \in [Player -> Answers \cup {None}]
    /\ pending \in [Player -> Proposals \cup {None}]
    /\ phase \in Phases
    /\ asked \in Askings \cup {None}
    /\ frame \in Frames \cup {None}
    /\ ending \in Endings \cup {None}
    /\ accepted \in Seq(Accepted)
    /\ transition \in Transitions \cup {None}
    /\ recorded \in Nat
    /\ closure \in Endings \cup {None}
    /\ result \in {None, "Collected", "Quarantined", "Failed"}

(* TeacherRunner::create: every session starts with no plan. *)
Init ==
    /\ generation \in {1, 2}
    /\ plan = [p \in Player |-> EmptyPlan]
    /\ last = [p \in Player |-> None]
    /\ pending = [p \in Player |-> None]
    /\ phase = "new"
    /\ asked = None
    /\ frame = None
    /\ ending = None
    /\ accepted = <<>>
    /\ transition = None
    /\ recorded = 0
    /\ closure = None
    /\ result = None

Return(what) == phase' = "done" /\ result' = what

----------------------------------------------------------------------------
(* The environment comes to its next boundary after count accepted actions: *)
(* an end, or a decision while the budget lasts.                            *)
Boundary(count) ==
    \/ \E e \in Endings : ending' = e /\ frame' = None
    \/ /\ count < MaxActions
       /\ \E d \in Decisions : frame' = [index |-> count, decision |-> d]
       /\ ending' = None

(* The recorder closes with the episode. *)
RecorderFollows == closure' = ending'

Reset ==
    /\ phase = "new"
    /\ Boundary(0)
    /\ RecorderFollows
    /\ phase' = IF ending' = None THEN "choosing" ELSE "finalizing"
    /\ UNCHANGED <<generation, sessionVars, asked, accepted, transition, recorded, result>>

ResetRejected ==
    /\ phase = "new"
    /\ Return("Failed")
    /\ UNCHANGED <<generation, sessionVars, asked, episodeVars, recorderVars>>

(* A second run of one runner is refused. *)
RunAgain ==
    /\ phase = "done"
    /\ UNCHANGED vars

Actor == frame.decision.player

(* An observation that is not later than the accepted action is refused.    *)
Outdated(p, index) == last[p] # None /\ index <= last[p].index

Proposal(p) ==
    IF Outdated(p, frame.index) THEN InvalidInput
    ELSE Propose(generation, frame.decision.view, frame.decision.candidates, plan[p],
                 last[p] # None)

(* DeterministicTeacherPolicy::select, under the runner's own select. *)
MaySelect == pending[Actor] = None /\ (generation = 2 => asked = None)

Select ==
    /\ phase = "choosing"
    /\ LET proposal == Proposal(Actor)
       IN  IF MaySelect /\ proposal.status = "Selected"
           THEN /\ pending' = [pending EXCEPT ![Actor] =
                                 [frame |-> frame, base |-> last[Actor],
                                  key |-> proposal.key, plan |-> proposal.plan]]
                /\ asked' = IF generation = 2
                            THEN [player |-> Actor, decision |-> frame.decision] ELSE None
                /\ phase' = "proposed"
                /\ UNCHANGED result
           ELSE Return("Failed") /\ UNCHANGED <<pending, asked>>
    /\ UNCHANGED <<generation, plan, last, episodeVars, recorderVars>>

(* step with the selected key: the environment accepts and moves on ... *)
StepAccepted ==
    /\ phase = "proposed"
    /\ accepted' = Append(accepted, [player |-> Actor, key |-> pending[Actor].key])
    /\ transition' = [index |-> frame.index, decision |-> frame.decision,
                      key |-> pending[Actor].key]
    /\ Boundary(frame.index + 1)
    /\ phase' = "accepted"
    /\ UNCHANGED <<generation, sessionVars, asked, recorderVars, result>>

(* ... or rejects and stays as it is. *)
StepRejected ==
    /\ phase = "proposed"
    /\ phase' = "rejected"
    /\ UNCHANGED <<generation, sessionVars, asked, episodeVars, recorderVars, result>>

(* Mutant: the first runner tells the player who is to act now. *)
TellerNow == IF generation = 2 THEN asked.player
             ELSE IF frame # None THEN Actor ELSE transition.decision.player

(* Whom the runner tells: the session it has asked.                         *)
Teller == IF generation = 2 THEN asked.player ELSE transition.decision.player

(* commit_teacher_state_delta *)
CommitFits(p) ==
    /\ pending[p] # None
    /\ pending[p].frame.decision.player = p
    /\ pending[p].frame.index = transition.index
    /\ pending[p].base = last[p]
    /\ pending[p].key = transition.key
    /\ ~Outdated(p, transition.index)
    /\ PlanValid(plan[p])
    /\ PlanValid(pending[p].plan)
    /\ pending[p].plan.chain \in {None, pending[p].frame.decision.view.chain}

(* The second runner checks first that it asked for this decision.          *)
CommitDue == generation = 2 => asked # None /\ asked.decision = transition.decision

Committed(p) ==
    /\ plan' = [plan EXCEPT ![p] = pending[p].plan]
    /\ last' = [last EXCEPT ![p] = [index |-> transition.index, key |-> transition.key]]

(* A proposal is over once its outcome is known, whether or not it fits. *)
Commit ==
    /\ phase = "accepted"
    /\ IF ~CommitDue THEN Return("Failed") /\ UNCHANGED <<sessionVars, asked>>
       ELSE /\ pending' = [pending EXCEPT ![Teller] = None]
            /\ asked' = None
            /\ IF CommitFits(Teller)
               THEN Committed(Teller) /\ phase' = "recording" /\ UNCHANGED result
               ELSE Return("Failed") /\ UNCHANGED <<plan, last>>
    /\ UNCHANGED <<generation, episodeVars, recorderVars>>

(* on_step_accepted: one record more.  It is refused only for an episode    *)
(* that has failed (see RecordedRun).                                       *)
Record ==
    /\ phase = "recording"
    /\ closure' = ending
    /\ recorded' = recorded + 1
    /\ transition' = None
    /\ phase' = IF ending = None THEN "choosing" ELSE "finalizing"
    /\ UNCHANGED <<generation, sessionVars, asked, frame, ending, accepted, result>>

RecordRefused ==
    /\ phase = "recording"
    /\ ending = "Failed"
    /\ closure' = "Failed"
    /\ Return("Failed")
    /\ UNCHANGED <<generation, sessionVars, asked, episodeVars, recorded>>

(* reject_pending_proposal *)
Forgotten(p) ==
    /\ pending' = [pending EXCEPT ![p] = None]
    /\ asked' = None
    /\ UNCHANGED <<plan, last>>

(* A rejection ends the run: the proposal is dropped, the episode cancelled *)
(* and what was recorded is sealed as quarantined.                          *)
Reject ==
    /\ phase = "rejected"
    /\ Forgotten(Actor)
    /\ ending' = "Interrupted"
    /\ frame' = None
    /\ RecorderFollows
    /\ Return("Quarantined")
    /\ UNCHANGED <<generation, accepted, transition, recorded>>

(* finalize: the sealed envelope is admitted, or the run has failed; the    *)
(* second generation hands a failed episode's envelope back all the same.   *)
Finalize(admitted) ==
    /\ phase = "finalizing"
    /\ Return(IF closure = "Failed"
              THEN IF generation = 1 THEN "Failed" ELSE "Collected"
              ELSE IF admitted THEN "Collected" ELSE "Failed")
    /\ UNCHANGED <<generation, sessionVars, asked, episodeVars, recorderVars>>

RunStep ==
    \/ Reset
    \/ ResetRejected
    \/ Select
    \/ StepAccepted
    \/ StepRejected
    \/ Commit
    \/ Record
    \/ RecordRefused
    \/ Reject
    \/ \E admitted \in BOOLEAN : Finalize(admitted)

Next == RunStep \/ RunAgain

(* run_impl is straight-line code of one thread: it goes on to another      *)
(* phase until it has returned.                                             *)
GoesOn == phase # "done" /\ phase' \in Phases \ {phase}

Spec == Init /\ [][Next]_vars /\ WF_phase(GoesOn)

----------------------------------------------------------------------------
(***************************************************************************)
(* Properties.                                                              *)
(***************************************************************************)

(* A plan always makes sense in its profile: its line serves its goal, its  *)
(* goal is still open, its completed nodes are nodes of that line, and none *)
(* is completed before the nodes it depends on.                             *)
PlanCoherent(p) ==
    /\ PlanValid(p)
    /\ p.goal \notin p.achieved
    /\ p.line # None =>
        \A d \in Profile.lines[p.line].dependencies : d[2] \in p.completed => d[1] \in p.completed

PlansAreCoherent == \A p \in Player : PlanCoherent(plan[p])

(* Whenever the environment accepts what a teacher selected, the teacher    *)
(* can take it over: the run never fails on a commit.                       *)
CommitNeverRefused == phase = "accepted" => CommitDue /\ CommitFits(Teller)

(* The last accepted action of a session is the last the environment        *)
(* accepted from its player, but for the one that is being told.            *)
Told == IF phase = "accepted" THEN Len(accepted) - 1 ELSE Len(accepted)

SessionsKnowTheirActions ==
    \A p \in Player :
        \/ /\ last[p] = None /\ plan[p] = EmptyPlan
           /\ \A i \in 1..Told : accepted[i].player # p
        \/ \E i \in 1..Told :
              /\ last[p] = [index |-> i - 1, key |-> accepted[i].key]
              /\ accepted[i].player = p
              /\ \A j \in (i + 1)..Told : accepted[j].player # p

(* Nobody waits for the outcome of an action that is settled: proposals are *)
(* open only while one is under way, and never in both sessions.            *)
OneOpenProposal ==
    \A p \in Player : pending[p] # None =>
        /\ phase \in {"proposed", "accepted", "rejected"}
        /\ p = IF phase = "accepted" THEN Teller ELSE Actor

(* Selecting fails only on a public decision the profile cannot judge: the  *)
(* teacher's own plan never gets in its way.                                *)
Judged(d) ==
    /\ \A c \in Condition : d.view.holds[c] # "Invalid"
    /\ \A c \in d.candidates, i \in Intent : c.meets[i] # "Invalid"

SelectsWhatItCanJudge ==
    phase = "choosing" /\ Judged(frame.decision) =>
        MaySelect /\ Proposal(Actor).status = "Selected"

============================================================================
