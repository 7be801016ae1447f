--------------------------- MODULE GameplayEvaluation ---------------------------
(***************************************************************************)
(* FrozenGameplayEvaluator: a checkpoint plays a fixed schedule of duels    *)
(* against the teachers, in the normal environment and with the normal      *)
(* recorder, and each duel counts only if what was recorded replays and is  *)
(* admitted.  Every scheduled job is classified, whatever fails.            *)
(***************************************************************************)
EXTENDS Admission, CheckpointPolicy

CONSTANTS
    SmokeCheckpoint,
    Profiles,            \* bound: the profiles evaluated, each with its checkpoint
    Control,             \* the run control of the evaluation
    Contexts(_),         \* bound: contexts that may be brought in place of the exact one
    Answers(_, _),       \* what a provider may answer to a request, given an earlier one
    Strays,              \* bound: candidates outside the domain an opponent may choose
    MaxFaults,           \* bound: what may go wrong in a run, in all
    MaxRuns              \* bound

ASSUME ControlAssumption ==
    Control \in [process : Nat \ {0}, actions : Nat \ {0}] /\ Control # None

(* Every scheduled duel can be played, a frame's candidates are ordered,    *)
(* and who wins is one of the players or neither.                           *)
ASSUME DuelsAssumption ==
    /\ \A seed \in {1, 2}, mirror \in BOOLEAN, starting \in {0, 1} :
          [seed |-> seed, mirror |-> mirror, starting |-> starting] \in Specs
    /\ \A spec \in Specs : \A played \in DOMAIN Game[spec] :
          LET turn == Turn(spec, played)
          IN  /\ turn.over => turn.winner \in {0, 1, 2} \ {None}
              /\ ~turn.over => \A key \in Range(turn.request.keys) : KeyRank[key] \in Nat

(* What is there is not None: proposals, closures and evidence, and the     *)
(* names of failures.                                                       *)
Stages == {"public_frame", "model_input", "inference", "selection", "environment", "replay",
           "admission"}
Codes == {"PUBLIC_FRAME_INVALID", "MODEL_INPUT_INVALID", "INFERENCE_FAILURE",
          "INFERENCE_RESPONSE_INVALID", "SELECTION_INVALID", "ENVIRONMENT_FACTORY_REJECTED",
          "RESET_REJECTED", "OPPONENT_POLICY_FAILURE", "STEP_REJECTED", "POLICY_COMMIT_FAILURE",
          "TRAJECTORY_SEAL_FAILURE", "REPLAY_FAILURE", "ADMISSION_FAILURE",
          "QUARANTINED_TRAJECTORY_PASSED_ADMISSION", "EVALUATOR_ALREADY_RAN"}
ASSUME NoneAssumption ==
    /\ None \notin Stages \cup Codes
    /\ \A spec \in Specs : \A played \in DOMAIN Game[spec] :
          LET frame == Frame(spec, played)
              end == Answer(spec, Control, played)
          IN  /\ ClosureOf(Failure(spec, played)) # None
              /\ end.kind # "frame" => ClosureOf(end) # None
              /\ end.kind = "interrupted" => EvidenceOf(end) # None
              /\ end.kind = "frame" =>
                    /\ PendingClosure(frame) # None
                    /\ EvidenceOf(Cancelled(spec, Control, played)) # None
                    /\ \A key \in Range(frame.request.keys) : Proposal(frame, key) # None

VARIABLES
    context,                          \* the evaluation context, once accepted
    stage,
    runs,                             \* how often run was called
    results, summary,
    manifest, keys, current, records, closure, ending,   \* the job under way
    pending,                          \* the proposal of the evaluated policy
    proposed,                         \* the chosen candidate, before it is submitted
    prior,                            \* the failure that ended the job, if one did
    asked,                            \* the last request of the evaluated policy
    used,                             \* the answer its proposal is made of
    faults                            \* what went wrong in each job so far

job == <<manifest, keys, current, records, closure, ending, pending, proposed, prior>>
evaluationVars == <<version, context, stage, runs, results, summary, job, asked, used, faults>>

Implementation == "implementation_acceptance"
Meaningful == "meaningful_fixed_matchup"

----------------------------------------------------------------------------
(* The schedule.  Teachers are bound to decks.                              *)
Teacher(deck) ==
    [kind |-> "heuristic", sampling |-> "argmax", rng |-> NoRng, producer |-> "teacher_core",
     inference |-> "c", observation |-> "c", action |-> "c", checkpoint |-> None,
     search |-> None, demonstration |-> None, metadata |-> deck]

(* make_job_for_placement; the deck of seat 0 is that of role 0, unless     *)
(* mirrored.                                                                *)
Job(profile, checkpoint, seed, mirror, seat, starting) ==
    [profile |-> profile, checkpoint |-> checkpoint, seed |-> seed, mirror |-> mirror,
     seat |-> seat, starting |-> starting,
     opponent |-> Teacher(Decks[IF mirror THEN seat ELSE 1 - seat])]

(* validate_job_impl *)
ValidJob(j) ==
    /\ j.profile \in {Implementation, Meaningful}
    /\ j.seat \in {0, 1} /\ j.starting \in {0, 1}
    /\ (j.profile = Implementation) = (j.checkpoint = SmokeCheckpoint)
    /\ j.opponent = Teacher(Decks[IF j.mirror THEN j.seat ELSE 1 - j.seat])
    /\ j.seed \in {1, 2}

(* The exact schedules: by seed, by placement, by starting player.          *)
Schedule(profile, checkpoint) ==
    IF profile = Implementation
    THEN [i \in 1..8 |-> Job(profile, checkpoint, 1 + (i - 1) \div 4, ((i - 1) \div 2) % 2 = 1,
                             0, (i - 1) % 2)]
    ELSE [i \in 1..16 |-> Job(profile, checkpoint, 1 + (i - 1) \div 8, ((i - 1) \div 4) % 2 = 1,
                              ((i - 1) \div 2) % 2, (i - 1) % 2)]

(* evaluation_corpus_identity, evaluation_identity and                      *)
(* evaluation_job_manifest_identity, each over what it is computed from.    *)
CorpusIdentity(c) == <<"corpus", c.profile, c.checkpoint, c.jobs>>
EvaluationIdentity(c) == <<"evaluation", c.checkpoint, c.corpus>>
ManifestIdentity(c) == <<"manifest", c.evaluation, c.corpus, c.jobs>>

(* make_implementation_acceptance_context,                                  *)
(* make_meaningful_fixed_matchup_context                                    *)
MakeContext(profile, checkpoint) ==
    LET jobs == [profile |-> profile, checkpoint |-> checkpoint,
                 jobs |-> Schedule(profile, checkpoint)]
        corpus == jobs @@ [corpus |-> CorpusIdentity(jobs)]
        evaluation == corpus @@ [evaluation |-> EvaluationIdentity(corpus)]
    IN  evaluation @@ [jobManifest |-> ManifestIdentity(evaluation)]

(* Mutant: the jobs are counted, and each is valid. *)
ValidContextCounted(c) ==
    /\ c.profile \in {Implementation, Meaningful}
    /\ (c.profile = Implementation) = (c.checkpoint = SmokeCheckpoint)
    /\ Len(c.jobs) = (IF c.profile = Meaningful THEN 16 ELSE 8)
    /\ \A j \in Range(c.jobs) : ValidJob(j) /\ j.profile = c.profile /\ j.checkpoint = c.checkpoint
    /\ c.corpus = CorpusIdentity(c) /\ c.evaluation = EvaluationIdentity(c)
    /\ c.jobManifest = ManifestIdentity(c)

(* validate_evaluation_context *)
ValidContext(c) ==
    /\ c.profile \in {Implementation, Meaningful}
    /\ (c.profile = Implementation) = (c.checkpoint = SmokeCheckpoint)
    /\ \A j \in Range(c.jobs) : ValidJob(j) /\ j.profile = c.profile /\ j.checkpoint = c.checkpoint
    /\ c.jobs = Schedule(c.profile, c.checkpoint)
    /\ c.corpus = CorpusIdentity(c) /\ c.evaluation = EvaluationIdentity(c)
    /\ c.jobManifest = ManifestIdentity(c)

----------------------------------------------------------------------------
Now == context.jobs[Len(results) + 1]
SpecOf(j) == [seed |-> j.seed, mirror |-> j.mirror, starting |-> j.starting]

Evaluated(checkpoint) ==
    [Teacher(None) EXCEPT !.kind = "neural", !.producer = "bc", !.checkpoint = checkpoint]

(* assignment_for *)
AssignmentFor(j, player, artifact) ==
    LET spec == SpecOf(j)
    IN  [player |-> player, artifact |-> artifact, role |-> DeckIndex(spec, player),
         deck |-> Decks[DeckIndex(spec, player)], seat |-> Seat(spec, player),
         epoch |-> 0, from |-> 0]

(* make_runtime_policies *)
Provenance(j) ==
    LET artifact(player) == IF player = j.seat THEN Evaluated(j.checkpoint) ELSE j.opponent
    IN  [artifacts |-> {artifact(0), artifact(1)},
         assignments |-> {AssignmentFor(j, player, artifact(player)) : player \in {0, 1}}]

EvaluatedTurn == current.player = Now.seat
FaultCount == Cardinality({i \in DOMAIN faults : faults[i] # "none"})
MayFail == FaultCount < MaxFaults
Blame(what) == faults' = Append(faults, what)

NoJob == /\ manifest = None /\ keys = <<>> /\ current = None /\ records = <<>> /\ closure = None
         /\ ending = None /\ pending = None /\ proposed = None /\ prior = NoFailure

EvaluationInit ==
    /\ version = 1
    /\ context = None /\ stage = "offered" /\ runs = 0
    /\ results = <<>> /\ summary = None
    /\ NoJob
    /\ asked = None /\ used = None /\ faults = <<>>

(* create_frozen_gameplay_evaluator,                                        *)
(* create_meaningful_frozen_gameplay_evaluator *)
Create(c) ==
    /\ stage = "offered"
    /\ IF ValidContext(c) /\ CanResolve("checkpoint", c.checkpoint) /\ ValidControl(Control)
       THEN context' = c /\ stage' = "created"
       ELSE UNCHANGED context /\ stage' = "refused"
    /\ UNCHANGED <<runs, results, summary, job, asked, used, faults>>

----------------------------------------------------------------------------
(* Results.  A failure carries its stage and code in both records.          *)
Trusted == {"win", "loss", "draw"}

ValidFailure(x) == (x.stage = None) = (x.code = None)

(* validate_replay_admission_summary *)
ValidReplaySummary(s) ==
    /\ s.replay \in {"not_run", "passed", "failed"}
    /\ s.admission \in {"not_run", "passed", "failed", "quarantined"}
    /\ ValidFailure(s)
    /\ s.replay = "failed" \/ s.admission \in {"failed", "quarantined"} => s.stage # None
    /\ s.admission = "passed" => s.replay = "passed"
    /\ s.replay = "not_run" => s.admission \in {"not_run", "quarantined"}

(* validate_gameplay_job_result *)
ValidResult(r) ==
    /\ ValidFailure(r)
    /\ r.status \in {"failed", "quarantined"} => r.stage # None
    /\ r.status \in Trusted =>
          /\ r.started /\ r.outcome # None /\ r.record # {} /\ r.gameplay # {}
          /\ r.stage = None
    /\ r.status = "interrupted" => r.outcome = None

(* What becomes of a job: its result, and the replay and admission summary  *)
(* whose identity the result holds.  Of no or one envelope, no or one       *)
(* identity: one that failed has none.                                      *)
Outcome(j, status, failure, outcome, envelopes, replay, admission) ==
    LET kept == {e \in envelopes : e.closure.kind # "failed"}
        record == {RecordId(e) : e \in kept}
        gameplay == {GameplayId(e) : e \in kept}
        replayed == [job |-> j, replay |-> replay, admission |-> admission,
                     stage |-> failure.stage, code |-> failure.code,
                     record |-> record, gameplay |-> gameplay]
    IN  [job |-> j, status |-> status, started |-> TRUE,
         stage |-> failure.stage, code |-> failure.code, outcome |-> outcome,
         record |-> record, gameplay |-> gameplay, summary |-> replayed]

(* no_envelope_failure *)
NoEnvelope(j, failure) == Outcome(j, "failed", failure, None, {}, "not_run", "not_run")
Environment(code) == Fails("environment", code)

Envelope == [manifest |-> manifest, records |-> records, closure |-> closure]
Sealed == stage = "closed" /\ closure # None /\ WellFormed(Envelope)
TheBundle ==
    Bundle({Envelope},
           IF closure.kind # "interrupted" THEN {}
           ELSE {[envelope |-> Envelope, evidence |-> EvidenceOf(ending)]},
           {})
Options == [control |-> IF closure.kind = "terminal" THEN Control ELSE None, source |-> TRUE]
EvidenceNow == IF closure.kind # "interrupted" THEN None ELSE EvidenceOf(ending)

(* Mutant: the teacher's seat is forgotten where the winner is looked up.   *)
StatusOfStarter ==
    IF closure.winner = 0 THEN "win" ELSE IF closure.winner = 2 THEN "draw" ELSE "loss"

(* A terminal closure is the evaluated policy's win or loss, or a draw.     *)
StatusOfWinner ==
    IF closure.winner = Now.seat THEN "win" ELSE IF closure.winner = 2 THEN "draw" ELSE "loss"

(* finalize_run of a job no failure ended: only what replays and is         *)
(* admitted is trusted.                                                     *)
PlayedOutcome ==
    IF ~Replays(Envelope, EvidenceNow, Options)
    THEN Outcome(Now, "failed", Fails("replay", "REPLAY_FAILURE"), None, {Envelope},
                 "failed", "not_run")
    ELSE IF ~Verified({Envelope}, TheBundle, Options)
    THEN Outcome(Now, "failed", Fails("admission", "ADMISSION_FAILURE"), None, {Envelope},
                 "passed", "failed")
    ELSE IF closure.kind = "terminal"
    THEN Outcome(Now, StatusOfWinner, NoFailure, closure.winner, {Envelope}, "passed", "passed")
    ELSE Outcome(Now, "interrupted", NoFailure, None, {Envelope}, "passed", "passed")

(* Mutant: what the failure left behind is not looked at again.             *)
FinalOutcomePlayed == IF ~Sealed THEN NoEnvelope(Now, Environment("TRAJECTORY_SEAL_FAILURE"))
                      ELSE PlayedOutcome

(* finalize_run *)
FinalOutcome ==
    IF ~Sealed THEN NoEnvelope(Now, Environment("TRAJECTORY_SEAL_FAILURE"))
    ELSE IF prior = NoFailure THEN PlayedOutcome
    ELSE IF prior.stage # "environment" \/ manifest.rejections = 0
    THEN Outcome(Now, "failed", prior, None, {Envelope}, "not_run", "not_run")
    ELSE IF Verified({Envelope}, TheBundle, Options)
    THEN NoEnvelope(Now, Fails("admission", "QUARANTINED_TRAJECTORY_PASSED_ADMISSION"))
    ELSE Outcome(Now, "quarantined", prior, None, {Envelope}, "not_run", "quarantined")

----------------------------------------------------------------------------
(* run, called again: nothing is played twice.                              *)
Run ==
    /\ stage = "created"
    /\ runs' = runs + 1
    /\ IF runs = 0
       THEN results' = <<>> /\ faults' = <<>>
       ELSE /\ results' = [i \in DOMAIN context.jobs |->
                  NoEnvelope(context.jobs[i], Environment("EVALUATOR_ALREADY_RAN"))]
            /\ faults' = [i \in DOMAIN context.jobs |-> "caller"]
    /\ summary' = None
    /\ stage' = "between"
    /\ UNCHANGED <<context, job, asked, used>>

Ended(result) ==
    /\ results' = Append(results, result)
    /\ manifest' = None /\ keys' = <<>> /\ current' = None /\ records' = <<>> /\ closure' = None
    /\ ending' = None /\ pending' = None /\ proposed' = None /\ prior' = NoFailure
    /\ used' = None
    /\ stage' = "between"

MoreJobs == stage = "between" /\ Len(results) < Len(context.jobs)

(* Something on the way to the first frame is refused.                      *)
BeginFails(code) ==
    /\ MoreJobs /\ MayFail
    /\ code \in {"ENVIRONMENT_FACTORY_REJECTED", "RESET_REJECTED"}
    /\ Ended(NoEnvelope(Now, Environment(code)))
    /\ Blame("environment")
    /\ UNCHANGED <<context, runs, summary, asked>>

TakeBoundary(next) ==
    IF next.kind = "frame"
    THEN current' = next.frame /\ stage' = "deciding" /\ UNCHANGED <<closure, ending>>
    ELSE current' = None /\ stage' = "closed" /\ closure' = ClosureOf(next) /\ ending' = next

(* run_one_job, up to the first frame. *)
Begin ==
    /\ MoreJobs
    /\ ValidProvenance(Provenance(Now), SpecOf(Now))
    /\ manifest' = [environment |-> "certified", episode |-> SpecOf(Now),
                    provenance |-> Provenance(Now), rejections |-> 0]
    /\ TakeBoundary(Answer(SpecOf(Now), Control, <<>>))
    /\ UNCHANGED <<context, runs, results, summary, keys, records, pending, proposed, prior,
                   asked, used, faults>>

(* The open frame is cancelled, and the job ends with this failure.         *)
CancelFor(failure) ==
    /\ ending' = Cancelled(manifest.episode, Control, keys)
    /\ closure' = PendingClosure(current)
    /\ records' = LedToPending(records, current)
    /\ current' = None /\ stage' = "closed"
    /\ pending' = None /\ proposed' = None
    /\ prior' = failure

(* The evaluated policy asks the provider and proposes, or fails.           *)
EvaluatedSelects(answer) ==
    /\ stage = "deciding" /\ EvaluatedTurn
    /\ asked' = InferenceRequest(Now.checkpoint, current)
    /\ LET failure == SelectFailure(Now.checkpoint, Now.seat, pending, current, answer)
       IN  IF failure = NoFailure
           THEN /\ pending' = Proposal(current, answer.key)
                /\ proposed' = answer.key /\ used' = answer
                /\ stage' = "proposed"
                /\ UNCHANGED <<current, records, closure, ending, prior, faults>>
           ELSE /\ MayFail /\ Blame(failure.stage)
                /\ CancelFor(failure)
                /\ UNCHANGED used
    /\ UNCHANGED <<context, runs, results, summary, manifest, keys>>

(* The teacher chooses a candidate; a faulty one may choose anything.       *)
OpponentSelects(key) ==
    /\ stage = "deciding" /\ ~EvaluatedTurn
    /\ key \in Range(current.request.keys) \/ MayFail
    /\ proposed' = key /\ stage' = "proposed"
    /\ UNCHANGED <<context, runs, results, summary, manifest, keys, current, records, closure,
                   ending, pending, prior, asked, used, faults>>

OpponentFails ==
    /\ stage = "deciding" /\ ~EvaluatedTurn /\ MayFail
    /\ CancelFor(Environment("OPPONENT_POLICY_FAILURE"))
    /\ Blame("opponent")
    /\ UNCHANGED <<context, runs, results, summary, manifest, keys, asked, used>>

(* step rejects a candidate that is not offered: the episode is quarantined *)
Rejected ==
    /\ stage = "proposed" /\ proposed \notin Range(current.request.keys)
    /\ manifest' = [manifest EXCEPT !.rejections = @ + 1]
    /\ CancelFor(Environment("STEP_REJECTED"))
    /\ Blame("opponent")
    /\ UNCHANGED <<context, runs, results, summary, keys, asked, used>>

Deciding == CHOOSE a \in Active(manifest.provenance, current.player, current.index) : TRUE

(* commit of the checkpoint policy, against the accepted transition.        *)
Matches == pending # None /\ pending = Proposal(current, proposed)

(* step accepts: the action is recorded, and the policy told.  A policy     *)
(* that does not know the action ends the job where it is.                  *)
Accepted(fails, knows) ==
    /\ stage = "proposed" /\ proposed \in Range(current.request.keys)
    /\ fails \/ ~knows => MayFail /\ ~(fails /\ ~knows)
    /\ keys' = Append(keys, proposed)
    /\ LET next == IF fails THEN Failure(manifest.episode, keys')
                   ELSE Answer(manifest.episode, Control, keys')
           attribution == NoDraw(Deciding, current.index)
       IN  /\ AttributionFits(manifest.provenance, current, attribution)
           /\ records' = Append(records, NewRecord(current, proposed, attribution, next))
           /\ IF knows THEN TakeBoundary(next)
              ELSE /\ current' = None /\ stage' = "closed" /\ ending' = next
                   /\ closure' = IF next.kind = "frame" THEN None ELSE ClosureOf(next)
    /\ IF EvaluatedTurn THEN knows = Matches /\ pending' = None ELSE UNCHANGED pending
    /\ prior' = IF knows THEN NoFailure ELSE Environment("POLICY_COMMIT_FAILURE")
    /\ IF knows /\ ~fails THEN UNCHANGED faults
       ELSE Blame(IF fails THEN "engine" ELSE "commit")
    /\ proposed' = None
    /\ UNCHANGED <<context, runs, results, summary, manifest, asked, used>>

Finalize ==
    /\ stage = "closed"
    /\ Ended(FinalOutcome)
    /\ faults' = IF Len(faults) = Len(results) THEN Append(faults, "none") ELSE faults
    /\ UNCHANGED <<context, runs, summary, asked>>

----------------------------------------------------------------------------
Count(P(_)) == Cardinality({i \in DOMAIN results : P(results[i])})

(* counts_as_inference_failure *)
CountsAsInference(r) == r.stage = "inference"

(* summarize, and validate_gameplay_summary on what it made.                *)
Summary ==
    LET Has(status) == Count(LAMBDA r : r.status = status)
    IN  [scheduled |-> Len(results), identities |-> results,
         wins |-> Has("win"), losses |-> Has("loss"), draws |-> Has("draw"),
         completed |-> Count(LAMBDA r : r.status \in Trusted),
         interrupted |-> Has("interrupted"), failed |-> Has("failed"),
         quarantined |-> Has("quarantined"), started |-> Count(LAMBDA r : r.started),
         inference |-> Count(CountsAsInference),
         replay |-> Count(LAMBDA r : r.summary.replay = "failed"),
         admission |-> Count(LAMBDA r : r.summary.admission = "failed"),
         numerator |-> Has("win"), denominator |-> Has("win") + Has("loss")]

ValidSummary(s) ==
    /\ Len(s.identities) = s.scheduled
    /\ \A i, k \in DOMAIN s.identities : s.identities[i] = s.identities[k] => i = k
    /\ s.wins + s.losses + s.draws + s.interrupted + s.failed + s.quarantined = s.scheduled
    /\ s.completed = s.wins + s.losses + s.draws
    /\ s.started <= s.scheduled
    /\ s.numerator = s.wins /\ s.denominator = s.wins + s.losses
    /\ s.replay <= s.scheduled /\ s.admission <= s.scheduled /\ s.inference <= s.scheduled

Summarize ==
    /\ stage = "between" /\ Len(results) = Len(context.jobs) /\ summary = None
    /\ ValidSummary(Summary)
    /\ summary' = Summary
    /\ stage' = IF runs < MaxRuns THEN "created" ELSE "done"
    /\ UNCHANGED <<context, runs, results, job, asked, used, faults>>

Step ==
    \/ \E profile \in Profiles : \E c \in Contexts(profile) : Create(c)
    \/ Run
    \/ \E code \in {"ENVIRONMENT_FACTORY_REJECTED", "RESET_REJECTED"} : BeginFails(code)
    \/ Begin
    \/ \E answer \in IF stage = "deciding" /\ EvaluatedTurn
                     THEN Answers(InferenceRequest(Now.checkpoint, current), asked) ELSE {} :
            IsAnswer(answer) /\ EvaluatedSelects(answer)
    \/ \E key \in IF current = None THEN {} ELSE Range(current.request.keys) \cup Strays :
            OpponentSelects(key)
    \/ OpponentFails \/ Rejected
    \/ \E fails, knows \in BOOLEAN : Accepted(fails, knows)
    \/ Finalize \/ Summarize
EvaluationNext == Step /\ UNCHANGED version

EvaluationSpec == EvaluationInit /\ [][EvaluationNext]_evaluationVars

----------------------------------------------------------------------------
(***************************************************************************)
(* Properties.                                                              *)
(***************************************************************************)

(* That the records of a result are of its job's duel. *)
Earned(r, made) ==
    LET j == r.job
        played == [k \in DOMAIN made |-> made[k].key]
    IN  /\ Reached(SpecOf(j), played) /\ Turn(SpecOf(j), played).over
        /\ r.outcome = Turn(SpecOf(j), played).winner
        /\ r.status = (CASE r.outcome = 2 -> "draw"
                         [] r.outcome = j.seat -> "win"
                         [] OTHER -> "loss")
        /\ \A k \in DOMAIN made :
             LET by == made[k].assignment.artifact
             IN  IF made[k].frame.player = j.seat
                 THEN by.kind = "neural" /\ by.checkpoint = context.checkpoint
                 ELSE by = Teacher(made[k].assignment.deck)

(* A trusted win, loss or draw is the engine's: the recorded choices lead   *)
(* to this end of the job's own duel, the evaluated policy made the choices *)
(* of its seat and the other deck's teacher the rest, and nothing failed on *)
(* the way (finalize_run; the evaluation contract, 8.4).                    *)
TrustedIsEarned ==
    \A i \in DOMAIN results : results[i].status \in Trusted =>
        /\ faults[i] = "none"
        /\ \E record \in results[i].record : Earned(results[i], record.records)

(* Each job ends the way that what went wrong in it deserves: a failure of  *)
(* the opponent, the engine or the evaluator is never one of the inference, *)
(* no failure is a loss, and a job in which nothing went wrong is never a   *)
(* failure, although the record of a cancelled job replays like any other   *)
(* (classify_policy_selection_failure, finalize_run).                       *)
BlameIsDeserved ==
    /\ \A i \in DOMAIN results :
        LET r == results[i]
        IN  CASE faults[i] = "none" -> r.status \in Trusted \cup {"interrupted"} /\ r.stage = None
              [] faults[i] \in {"public_frame", "model_input", "inference", "selection"} ->
                    /\ r.status = "failed" /\ r.stage = faults[i]
                    /\ r.record # {} /\ r.summary.replay = "not_run"
              [] faults[i] = "opponent" ->
                    /\ r.stage = "environment"
                    /\ r.status = (IF r.code = "STEP_REJECTED" THEN "quarantined" ELSE "failed")
              [] faults[i] = "engine" -> r.status = "failed" /\ r.stage = "replay"
              [] OTHER -> r.status = "failed" /\ r.stage = "environment"
    /\ summary # None =>
        /\ summary.inference = Cardinality({i \in DOMAIN faults : faults[i] = "inference"})
        /\ summary.replay = Cardinality({i \in DOMAIN faults : faults[i] = "engine"})
        /\ summary.admission = 0

(* However a run goes, its summary is about the whole frozen schedule, in   *)
(* order and each job once, and validates, as does every result: no job     *)
(* drops out of the denominator, and both profiles play every deck in both  *)
(* seats' positions with either player starting.                            *)
PopulationIsConserved ==
    /\ \A i \in DOMAIN results :
          ValidResult(results[i]) /\ ValidReplaySummary(results[i].summary)
    /\ context # None /\ stage = "between" /\ Len(results) = Len(context.jobs) =>
          /\ ValidSummary(Summary)
          /\ [i \in DOMAIN results |-> results[i].job] = context.jobs
          /\ \A i, k \in DOMAIN results : i # k => results[i].job # results[k].job
          /\ {<<r.job.seed, r.job.mirror, r.job.seat, r.job.starting>> : r \in Range(results)}
                = {1, 2} \X BOOLEAN
                  \X (IF context.profile = Meaningful THEN {0, 1} ELSE {0}) \X {0, 1}

(* What the evaluated policy has proposed is what the model, asked about    *)
(* this very frame, scored highest: no late, foreign or malformed answer    *)
(* becomes an action, and equal scores are decided by the keys alone.       *)
(* A proposal never outlives its frame (CheckpointBoundPolicyV1).           *)
AnswersAreCurrent ==
    IF pending = None THEN stage = "proposed" => ~EvaluatedTurn
    ELSE /\ stage = "proposed" /\ EvaluatedTurn
         /\ pending.decision = current /\ pending.key = proposed
         /\ used.request = InferenceRequest(context.checkpoint, current)
         /\ LET offered == current.request.keys
                chosen == CHOOSE i \in DOMAIN offered : offered[i] = proposed
            IN  \A i \in DOMAIN offered :
                    \/ used.scores[i] < used.scores[chosen]
                    \/ /\ used.scores[i] = used.scores[chosen]
                       /\ KeyRank[proposed] <= KeyRank[offered[i]]
================================================================================
