---------------------------- MODULE RecordedRun ----------------------------
(***************************************************************************)
(* One collection run: the policy runner (src/src/policy/runner.cpp) plays  *)
(* an episode of its own EpisodicEnvironment and reports every result to    *)
(* the trajectory recorder (src/src/trajectory/recorder.cpp), which writes  *)
(* one record per accepted action and, at the end, one closure.             *)
(*                                                                          *)
(* The recorder believes nothing: it checks each result against what it has *)
(* recorded so far, and closes as failed when they disagree.  The runner    *)
(* seals what was recorded and asks admission whether it may be learned     *)
(* from.  All of it is one thread; a step here is one call of the           *)
(* environment, one step under that call, or one reaction to its result.    *)
(***************************************************************************)
EXTENDS EpisodicEnvironment, SequencesExt

VARIABLES
    phase,       \* where PolicyRunner::run_impl is
    boundary,    \* its local copy of the last frame
    chosen,      \* the public key its policy selected last
    evidence,    \* its local copy of the interruption
    result,      \* PolicyRunnerDisposition, None before the return
    manifest,    \* the episode the recorder was built for
    recorder,    \* RecorderLifecycle
    snapshot,    \* current_frame_, without its token
    records,     \* records_
    closure,     \* closure_
    rejections   \* collection_disposition: how many policy rejections, clean if none

runnerVars == <<phase, boundary, chosen, evidence, result>>
recorderVars == <<manifest, recorder, snapshot, records, closure, rejections>>
runVars == <<vars, runnerVars, recorderVars>>

(* A PublicFrameSnapshot has everything of a frame but its freshness. *)
Snapshot(f) == [episode |-> f.episode, index |-> f.index, decision |-> f.decision,
                keys |-> f.keys]

Snapshots == [episode : Specs, index : Nat, decision : DecisionIds,
              keys : SUBSET {PublicKey(k) : k \in Keys}]
Classes == {"atomic", "intermediate", "final"}
Ends == {"Terminal", "Interrupted", "Failed"}
Targets == [kind : {"record", "pending"}, index : Nat, decision : DecisionIds]
Records == [frame : Snapshots, key : {PublicKey(k) : k \in Keys}, class : Classes,
            successor : Ends \cup {"NextFrame"}, target : Targets \cup {None}]
Closures == [kind : Ends, count : Nat, last : Nat \cup {None},
             pending : Snapshots \cup {None}]

ASSUME RecordingAssumption == None \notin Snapshots \cup Targets \cup Closures

RunTypeOK ==
    /\ EnvironmentTypeOK
    /\ phase \in {"new", "resetting", "choosing", "selected", "stepping", "cancelling",
                  "interrupting", "finalizing", "done"}
    /\ boundary \in Frames \cup {None}
    /\ chosen \in {PublicKey(k) : k \in Keys} \cup {None}
    /\ evidence \in Interruptions \cup {None}
    /\ result \in {None, "CleanAdmitted", "Quarantined", "Failed"}
    /\ manifest \in Specs
    /\ recorder \in {"Empty", "AwaitingAction", "Closed"}
    /\ snapshot \in Snapshots \cup {None}
    /\ records \in Seq(Records)
    /\ closure \in Closures \cup {None}
    /\ rejections \in 0..1

(* PolicyRunner::create: environment and recorder for one specification. *)
RunInit ==
    /\ EnvironmentInit
    /\ phase = "new"
    /\ boundary = None
    /\ chosen = None
    /\ evidence = None
    /\ result = None
    /\ manifest \in Specs
    /\ recorder = "Empty"
    /\ snapshot = None
    /\ records = <<>>
    /\ closure = None
    /\ rejections = 0

Return(disposition) == phase' = "done" /\ result' = disposition

----------------------------------------------------------------------------
(* The recorder: what it makes of a result, and when it refuses it. *)

Recorded == Len(records)

ClosureOf(kind, count) ==
    [kind    |-> kind,
     count   |-> count,
     last    |-> IF kind = "Terminal" THEN terminal.last ELSE None,
     pending |-> None]

FailClosed ==
    /\ recorder' = "Closed"
    /\ snapshot' = None
    /\ closure' = [kind |-> "Failed", count |-> Recorded, last |-> None, pending |-> None]
    /\ UNCHANGED records

FrameFits(f, count) == f.episode = manifest /\ f.index = count

LastBefore(count) == IF count = 0 THEN None ELSE count - 1

(* The boundary the environment came to fits a recorder that holds count    *)
(* records, the last of them for the answered frame.                        *)
ResultFits(count, answered) ==
    /\ state = "AwaitingAction" => FrameFits(frame, count)
    /\ state = "GameTerminal" => /\ views = {0, 1}
                                 /\ terminal.count = count
                                 /\ terminal.last = LastBefore(count)
    /\ state = "Interrupted" => /\ interruption.count = count
                                /\ interruption.last = IF answered = None THEN None
                                                         ELSE answered.index
    /\ state = "Failed" => /\ failed.count = count
                           /\ failed.last = IF answered = None THEN None ELSE answered.decision

(* The kind of closure or successor each public ending becomes. *)
EndOf == IF state = "GameTerminal" THEN "Terminal" ELSE state

(* The boundary is taken over: a frame is awaited, or the episode closed. *)
TakeBoundary(count) ==
    IF state = "AwaitingAction"
    THEN /\ recorder' = "AwaitingAction"
         /\ snapshot' = Snapshot(frame)
         /\ UNCHANGED closure
    ELSE /\ recorder' = "Closed"
         /\ snapshot' = None
         /\ closure' = ClosureOf(EndOf, count)

(* on_step_accepted: the transition is the answer to the awaited frame ... *)
AnsweredFrame(t) == CHOOSE f \in published : f.token = t.token

TransitionFits(t) ==
    /\ snapshot # None
    /\ AnsweredFrame(t).decision = snapshot.decision
    /\ t.index = snapshot.index
    /\ chosen \in snapshot.keys

(* ... its class follows from the request and the selected candidate, and   *)
(* the engine was given a response exactly when that class says so ...      *)
Responds == chosen.public \in snapshot.decision.content.finals

(* Mutant: the last pick of a continuation is classified like the others. *)
ClassByContinuation ==
    IF snapshot.decision.content.continuation THEN "intermediate" ELSE "atomic"

Class ==
    IF ~snapshot.decision.content.continuation THEN "atomic"
    ELSE IF Responds THEN "final" ELSE "intermediate"

ClassFits(t) == Responds = t.submitted /\ (Responds \/ snapshot.decision.content.continuation)

(* Mutant: the successor is held against the records before this one. *)
SuccessorFitsEarly == ResultFits(Recorded, snapshot)

(* ... and what follows fits one record more. *)
SuccessorFits == ResultFits(Recorded + 1, snapshot)

Target(kind, f) == [kind |-> kind, index |-> f.index, decision |-> f.decision]

NewRecord ==
    [frame     |-> snapshot,
     key       |-> chosen,
     class     |-> Class,
     successor |-> IF state = "AwaitingAction" THEN "NextFrame" ELSE EndOf,
     target    |-> IF state = "AwaitingAction" THEN Target("record", frame) ELSE None]

(* on_interrupt_accepted: the last record points to the frame left open. *)
PendingAfterLast(f) ==
    IF records = <<>> THEN records
    ELSE [records EXCEPT ![Recorded].successor = "NextFrame",
                         ![Recorded].target = Target("pending", f)]

InterruptionFits ==
    /\ state = "Interrupted"
    /\ interruption.reason = "ADMINISTRATIVE_CANCEL"
    /\ interruption.count = Recorded
    /\ interruption.last = snapshot.index
    /\ FrameFits(boundary, Recorded)
    /\ Snapshot(boundary) = snapshot

(* validate_envelope_sequence, which seal runs: indices without a gap, each *)
(* record leads to the next, and the last one to the closure.               *)
EnvelopeValid ==
    /\ closure # None
    /\ \A i \in 1..Recorded : records[i].frame.episode = manifest /\ records[i].frame.index = i - 1
    /\ \A i \in 1..(Recorded - 1) :
        /\ records[i].successor = "NextFrame"
        /\ records[i].target = Target("record", records[i + 1].frame)
    /\ closure.count = Recorded
    /\ closure.kind = "Terminal" => closure.last = LastBefore(Recorded)
    /\ closure.pending # None => closure.pending.episode = manifest /\ closure.pending.index = Recorded
    /\ Recorded > 0 =>
        IF closure.pending # None
        THEN /\ records[Recorded].successor = "NextFrame"
             /\ records[Recorded].target = Target("pending", closure.pending)
        ELSE records[Recorded].successor = closure.kind

----------------------------------------------------------------------------
(* The runner. *)

(* A call of the environment runs below the runner until it returns. *)
EnvironmentWorks ==
    /\ DriverAdvances \/ ConsumeBoundary
    /\ UNCHANGED <<runnerVars, recorderVars>>

RunResets ==
    /\ phase = "new"
    /\ \/ \E c \in Controls : ResetAccepted(manifest, c)
       \/ ResetConstructionFails(manifest)
    /\ phase' = "resetting"
    /\ UNCHANGED <<boundary, chosen, evidence, result, recorderVars>>

RunResetRejected ==
    /\ phase = "new"
    /\ \E well_formed, certified \in BOOLEAN : ResetRejected(well_formed, certified)
    /\ Return("Failed")
    /\ UNCHANGED <<boundary, chosen, evidence, recorderVars>>

(* A second run of one runner is refused. *)
RunAgain ==
    /\ phase = "done"
    /\ UNCHANGED runVars

Returned(p) == phase = p /\ call = "idle"

NextBoundary == frame

(* After a report the runner chooses again, finalizes, or gives up. *)
Proceed(accepted_by_recorder) ==
    IF ~accepted_by_recorder
    THEN Return("Failed") /\ UNCHANGED <<boundary, evidence>>
    ELSE /\ evidence' = interruption
         /\ UNCHANGED result
         /\ IF state = "AwaitingAction"
            THEN phase' = "choosing" /\ boundary' = NextBoundary
            ELSE phase' = "finalizing" /\ UNCHANGED boundary

OnResetAccepted ==
    /\ Returned("resetting")
    /\ IF ResultFits(0, None) THEN TakeBoundary(0) /\ UNCHANGED records ELSE FailClosed
    /\ Proceed(ResultFits(0, None))
    /\ UNCHANGED <<vars, chosen, manifest, rejections>>

(* The selection carries what the runner's own copy of the frame says. *)
Selection == [contract |-> TRUE, episode |-> boundary.episode, token |-> boundary.token,
              decision |-> boundary.decision, key |-> chosen]

(* A policy returns a public key, nothing obliges it to be an offered one,  *)
PolicySelects(key) ==
    /\ phase = "choosing"
    /\ chosen' = key
    /\ phase' = "selected"
    /\ UNCHANGED <<vars, boundary, evidence, result, recorderVars>>

(* or an error. *)
PolicyFails ==
    /\ phase = "choosing"
    /\ Return("Failed")
    /\ UNCHANGED <<vars, boundary, chosen, evidence, recorderVars>>

RunSteps ==
    /\ phase = "selected"
    /\ StepAccepted(Selection)
    /\ phase' = "stepping"
    /\ UNCHANGED <<boundary, chosen, evidence, result, recorderVars>>

OnStepAccepted ==
    LET t == Last(transitions)
        fits == TransitionFits(t) /\ ClassFits(t) /\ SuccessorFits
    IN  /\ Returned("stepping")
        /\ IF fits THEN TakeBoundary(Recorded + 1) /\ records' = Append(records, NewRecord)
                   ELSE FailClosed
        /\ Proceed(fits)
        /\ UNCHANGED <<vars, chosen, manifest, rejections>>

RejectionFits == frame # None /\ Snapshot(frame) = snapshot

(* on_step_rejected: the disposition is quarantined from here on. *)
Quarantine ==
    /\ rejections' = rejections + 1
    /\ phase' = "cancelling"
    /\ UNCHANGED <<result, recorder, snapshot, records, closure>>

RunStepRejected ==
    /\ phase = "selected"
    /\ StepRejected(Selection)
    /\ IF RejectionFits THEN Quarantine ELSE FailClosed /\ Return("Failed") /\ UNCHANGED rejections
    /\ UNCHANGED <<boundary, chosen, evidence, manifest>>

RunInterrupts ==
    /\ phase = "cancelling"
    /\ InterruptAccepted
    /\ phase' = "interrupting"
    /\ UNCHANGED <<boundary, chosen, evidence, result, recorderVars>>

OnInterruptAccepted ==
    /\ Returned("interrupting")
    /\ IF InterruptionFits
       THEN /\ closure' = [ClosureOf("Interrupted", Recorded) EXCEPT !.pending = Snapshot(boundary)]
            /\ records' = PendingAfterLast(boundary)
            /\ recorder' = "Closed"
            /\ snapshot' = None
            /\ phase' = "finalizing"
            /\ evidence' = interruption
            /\ UNCHANGED result
       ELSE FailClosed /\ Return("Failed") /\ UNCHANGED evidence
    /\ UNCHANGED <<vars, boundary, chosen, manifest, rejections>>

(* finalize_run: the interruption the runner holds and the closure the      *)
(* recorder holds must be of one kind.                                      *)
EvidenceFits == (evidence # None) = (closure.kind = "Interrupted")

(* Mutant: admission looks at the closure only. *)
AdmissibleByClosure == closure.kind # "Failed"

(* Admission refuses what failed or is quarantined, and replays the rest. *)
Admissible == closure.kind # "Failed" /\ rejections = 0

Finalize(replayed) ==
    /\ phase = "finalizing"
    /\ LET admitted == Admissible /\ replayed
       IN  IF ~EnvelopeValid \/ ~EvidenceFits \/ closure.kind = "Failed" THEN Return("Failed")
           ELSE IF rejections > 0 THEN Return(IF admitted THEN "Failed" ELSE "Quarantined")
           ELSE Return(IF admitted THEN "CleanAdmitted" ELSE "Failed")
    /\ UNCHANGED <<vars, boundary, chosen, evidence, recorderVars>>

----------------------------------------------------------------------------
RunStep ==
    \/ EnvironmentWorks
    \/ RunResets
    \/ RunResetRejected
    \/ OnResetAccepted
    \/ PolicyFails
    \/ \E k \in Keys : PolicySelects(PublicKey(k))
    \/ RunSteps
    \/ RunStepRejected
    \/ OnStepAccepted
    \/ RunInterrupts
    \/ OnInterruptAccepted
    \/ \E replayed \in BOOLEAN : Finalize(replayed)

RunNext == RunStep \/ RunAgain

(* run_impl is straight-line code of one thread over calls that return, and *)
(* a policy returns a selection or an error.                                *)
RunSpec == RunInit /\ [][RunNext]_runVars /\ WF_runVars(RunStep)

----------------------------------------------------------------------------
(***************************************************************************)
(* Properties.                                                              *)
(***************************************************************************)

(* Whenever the runner asks its policy or acts on the answer, runner,       *)
(* recorder and environment agree which frame is awaited and how many       *)
(* actions came before it: three copies, made in three places.              *)
ThreeCopiesAgree ==
    phase \in {"choosing", "selected"} =>
        /\ recorder = "AwaitingAction"
        /\ frame # None
        /\ boundary = frame
        /\ snapshot = Snapshot(frame)
        /\ Recorded = frame.index
        /\ Recorded = Len(transitions)

(* Record i is the i-th accepted action: the frame it answered, its class   *)
(* by what reached the engine.  None is made up; at most the last accepted  *)
(* action has none, and then the environment has failed.                    *)
RecordsAreTransitions ==
    LET settled == call = "idle" /\ phase # "stepping"
    IN  /\ Recorded \in {Len(transitions) - 1, Len(transitions)}
        /\ \A i \in 1..Recorded :
            /\ records[i].frame = Snapshot(AnsweredFrame(transitions[i]))
            /\ (records[i].class = "intermediate") = ~transitions[i].submitted
        /\ settled /\ Recorded # Len(transitions) => failed # None

(* The recorder declares an episode failed only if the environment did: its *)
(* own checks never refuse an episode that went well.                       *)
RecorderFailsWithEnvironment ==
    closure # None /\ closure.kind = "Failed" => failed # None

(* What the runner seals passes the sequence rules of an envelope and has   *)
(* its evidence: an episode that ends is never lost in finalize_run.        *)
SealingSucceeds ==
    phase = "finalizing" => EnvelopeValid /\ EvidenceFits

(* A run is admitted as clean only if no selection was rejected and every   *)
(* accepted action is recorded, and quarantined exactly if one was rejected *)
(* and the frame it was meant for is the one left unacted.                  *)
VerdictIsDeserved ==
    phase = "done" =>
        /\ result = "CleanAdmitted" =>
            /\ rejections = 0
            /\ Recorded = Len(transitions)
            /\ terminal # None \/ interruption # None
        /\ (result = "Quarantined") = (rejections > 0)
        /\ result = "Quarantined" =>
            /\ closure.pending = Snapshot(boundary)
            /\ Recorded = Len(transitions)

(* Records are only ever appended, and nothing is written after the close;  *)
(* the target of the last record alone changes, when the episode is         *)
(* interrupted before the frame it led to was answered.                     *)
RecordsAppendOnly ==
    [][/\ Recorded' >= Recorded
       /\ \A i \in 1..Recorded :
            /\ records'[i].frame = records[i].frame
            /\ records'[i].key = records[i].key
            /\ records'[i] # records[i] => i = Recorded /\ closure'.pending # None
       /\ recorder = "Closed" => UNCHANGED recorderVars]_runVars

============================================================================
