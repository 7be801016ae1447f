------------------------------- MODULE Recording -------------------------------
(***************************************************************************)
(* What the environment answers to a sequence of choices, and what the      *)
(* recorder of the second trajectory version (TrajectoryRecorderV2) makes   *)
(* of the answers.  RecordedRun follows the first version's recorder call   *)
(* by call; here both sides are functions of the choices, for replay and    *)
(* admission are about nothing else.                                        *)
(***************************************************************************)
EXTENDS PolicyProvenance, SequencesExt

CONSTANTS
    Game        \* Game[spec][keys]: what the engine comes to after these choices

Specs == DOMAIN Game
Reached(spec, keys) == keys \in DOMAIN Game[spec]
Turn(spec, keys) == Game[spec][keys]

(* Whoever decides is offered keys, each of which leads on. *)
ASSUME GameAssumption ==
    \A spec \in Specs :
        /\ Reached(spec, <<>>)
        /\ \A keys \in DOMAIN Game[spec] : ~Turn(spec, keys).over =>
              LET offered == Turn(spec, keys).request.keys
              IN  /\ offered \in Seq(Range(offered))
                  /\ \A key \in Range(offered) : Reached(spec, Append(keys, key))

(* A published frame, without its submission token. *)
Frame(spec, keys) ==
    [episode |-> spec, index |-> Len(keys), player |-> Turn(spec, keys).player,
     request |-> Turn(spec, keys).request]

ASSUME FrameAssumption ==
    \A spec \in Specs : \A keys \in DOMAIN Game[spec] :
        ~Turn(spec, keys).over => Frame(spec, keys) # None

LastFrame(spec, keys) == IF keys = <<>> THEN None ELSE Frame(spec, Front(keys))
IndexOf(frame) == IF frame = None THEN None ELSE frame.index

(* closure_engine_step_index: the process call before the last action, or   *)
(* else the last one.                                                       *)
EngineStep(spec, keys, processes) ==
    IF keys # <<>> THEN Turn(spec, Front(keys)).work - 1
    ELSE IF processes = 0 THEN 0 ELSE processes - 1

Interruption(spec, control, keys, reason, processes, last) ==
    [kind |-> "interrupted", episode |-> spec, reason |-> reason, count |-> Len(keys),
     last |-> last, process |-> control.process, actions |-> control.actions,
     processes |-> processes, step |-> EngineStep(spec, keys, processes)]

(* The boundary reset or step runs to: a budget may end the episode before  *)
(* the engine does.                                                         *)
Answer(spec, control, keys) ==
    LET turn == Turn(spec, keys)
    IN  IF turn.work > control.process
        THEN Interruption(spec, control, keys, "process_budget", control.process,
                          LastFrame(spec, keys))
        ELSE IF turn.over
        THEN [kind |-> "terminal", episode |-> spec, winner |-> turn.winner, count |-> Len(keys),
              last |-> IndexOf(LastFrame(spec, keys)), views |-> turn.views]
        ELSE IF Len(keys) >= control.actions
        THEN Interruption(spec, control, keys, "action_budget", turn.work, LastFrame(spec, keys))
        ELSE [kind |-> "frame", frame |-> Frame(spec, keys)]

(* interrupt, at the frame that is open. *)
Cancelled(spec, control, keys) ==
    Interruption(spec, control, keys, "administrative_cancel", Turn(spec, keys).work,
                 Frame(spec, keys))

Failure(spec, keys) ==
    [kind |-> "failed", episode |-> spec, count |-> Len(keys), last |-> LastFrame(spec, keys)]

----------------------------------------------------------------------------
(* The transition class a candidate has by what it submits. *)
Class(key, request) ==
    IF ~request.continuation THEN "atomic"
    ELSE IF key \in request.finals THEN "final" ELSE "intermediate"

Target(kind, frame) == [kind |-> kind, index |-> frame.index, decision |-> frame]

(* on_step_accepted: one record for an accepted action, whose successor is  *)
(* what the environment came to next.                                       *)
NewRecord(frame, key, attribution, next) ==
    [frame |-> frame, key |-> key, class |-> Class(key, frame.request),
     assignment |-> attribution.assignment, rng |-> attribution,
     successor |-> next.kind,
     target |-> IF next.kind = "frame" THEN Target("record", next.frame) ELSE None]

(* The three closures, with the fields of all of them. *)
TerminalClosure(count, winner, last, views) ==
    [kind |-> "terminal", count |-> count, winner |-> winner, last |-> last, views |-> views,
     pending |-> None]
InterruptedClosure(count, pending) ==
    [kind |-> "interrupted", count |-> count, winner |-> None, last |-> None, views |-> None,
     pending |-> pending]
FailedClosure(count) ==
    [kind |-> "failed", count |-> count, winner |-> None, last |-> None, views |-> None,
     pending |-> None]

(* capture_terminal, capture_interruption, capture_failure *)
ClosureOf(next) ==
    IF next.kind = "terminal"
    THEN TerminalClosure(next.count, next.winner, next.last, next.views)
    ELSE IF next.kind = "interrupted" THEN InterruptedClosure(next.count, None)
    ELSE FailedClosure(next.count)

(* on_interrupt_accepted: the open frame is kept, and the last record leads *)
(* to it.                                                                   *)
PendingClosure(frame) == InterruptedClosure(frame.index, frame)

LedTo(r, frame) ==
    [r EXCEPT !.successor = "frame", !.target = Target("pending", frame)]
LedToPending(records, frame) ==
    IF records = <<>> THEN <<>>
    ELSE [records EXCEPT ![Len(records)] = LedTo(@, frame)]

(* The recorder's account of keys played under a control, of which an       *)
(* envelope tells what was played and how the choices were attributed.      *)
RecordingOf(e, c, cancelled) ==
    LET spec == e.manifest.episode
        played == [i \in DOMAIN e.records |-> e.records[i].key]
        written == [i \in DOMAIN e.records |->
                      NewRecord(Frame(spec, SubSeq(played, 1, i - 1)), played[i],
                                e.records[i].rng, Answer(spec, c, SubSeq(played, 1, i)))]
    IN  IF cancelled
        THEN [records |-> LedToPending(written, Frame(spec, played)),
              closure |-> PendingClosure(Frame(spec, played))]
        ELSE [records |-> written, closure |-> ClosureOf(Answer(spec, c, played))]

(* validate_record_rng_attribution, and before it that the attribution is   *)
(* the acting assignment's.                                                 *)
AttributionFits(provenance, frame, attribution) ==
    \E a \in Active(provenance, frame.player, frame.index) :
        /\ attribution.assignment = a /\ attribution.index = frame.index
        /\ IF attribution.mode = "none" THEN ~UsesRng(a.artifact)
           ELSE /\ UsesRng(a.artifact) /\ HasDescriptor(a.artifact.rng)
                /\ Recomputes(attribution.stream, a)
                /\ Descriptor(a.artifact.rng).uniqueCursor

(* What every value of the envelope's type has: the fields of a record, and *)
(* of a closure those of its variant.                                       *)
IsRecord(r) ==
    r = [frame |-> r.frame, key |-> r.key, class |-> r.class, assignment |-> r.assignment,
         rng |-> r.rng, successor |-> r.successor, target |-> r.target]
IsClosure(c) ==
    \/ c = TerminalClosure(c.count, c.winner, c.last, c.views)
    \/ c = InterruptedClosure(c.count, c.pending)
    \/ c = FailedClosure(c.count)
IsEnvelope(e) ==
    /\ e.records \in Seq(Range(e.records)) /\ \A i \in DOMAIN e.records : IsRecord(e.records[i])
    /\ IsClosure(e.closure)

(* validate_envelope_sequence, which sealing and every decoder run. *)
LeadsTo(e, i) ==
    IF i < Len(e.records)
    THEN /\ e.records[i].successor = "frame"
         /\ e.records[i].target = Target("record", e.records[i + 1].frame)
    ELSE /\ e.records[i].successor =
                IF e.closure.pending # None THEN "frame" ELSE e.closure.kind
         /\ e.records[i].target =
                IF e.closure.pending # None THEN Target("pending", e.closure.pending) ELSE None

WellFormed(e) ==
    /\ \A i \in DOMAIN e.records :
        /\ e.records[i].frame.episode = e.manifest.episode
        /\ e.records[i].frame.index = i - 1
        /\ e.records[i].key \in Range(e.records[i].frame.request.keys)
        /\ e.records[i].class = Class(e.records[i].key, e.records[i].frame.request)
        /\ e.records[i].assignment = e.records[i].rng.assignment
        /\ e.records[i].rng.index = i - 1
        /\ LeadsTo(e, i)
    /\ e.closure.count = Len(e.records)
    /\ e.closure.kind = "terminal" =>
          e.closure.last = IF e.records = <<>> THEN None ELSE Len(e.records) - 1
    /\ e.closure.pending # None =>
          e.closure.pending.episode = e.manifest.episode /\ e.closure.pending.index = Len(e.records)
================================================================================
