------------------------------ MODULE Collection ------------------------------
(***************************************************************************)
(* From play to dataset: a caller plays episodes and reports them to a      *)
(* recorder, puts the sealed envelopes in a shard, the secret evidence in   *)
(* its bundle, has the shard verified, and publishes a dataset of what was  *)
(* admitted.  Between recording and admission one thing may be altered:     *)
(* what is admitted is decided by what can be replayed, not by who brings   *)
(* it.                                                                      *)
(***************************************************************************)
EXTENDS Admission

CONSTANTS
    Controls,        \* run controls a caller may choose
    Rosters(_),      \* provenance and sessions a caller may play a spec with
    Altered(_),      \* envelopes that differ from one in a single field
    AlteredEvidence(_),
    Lineups,         \* bound: the duels that may be played, one after the other
    MaxRejections,   \* bound
    Words, MaxCursor, LanesPerBlock  \* see PolicyRng

R == INSTANCE PolicyRng

ASSUME ControlsAssumption ==
    Controls \subseteq [process : Nat \ {0}, actions : Nat \ {0}] /\ None \notin Controls

ASSUME EvidenceAssumption ==
    \A c \in Controls, spec \in Specs : \A played \in DOMAIN Game[spec] :
        LET end == Answer(spec, c, played)
        IN  /\ end.kind = "frame" => EvidenceOf(Cancelled(spec, c, played)) # None
            /\ end.kind = "interrupted" => EvidenceOf(end) # None

(* What every value of an assignment's and of an initialization's type has. *)
ASSUME RostersAssumption ==
    \A spec \in Specs : \A roster \in Rosters(spec) :
        /\ \A a \in roster.provenance.assignments : a.from \in Nat
        /\ roster.sessions # None => \A player \in {0, 1} :
              LET init == roster.sessions[player].init
              IN  init = Initialization(init.contract, init.stream, init.material)

(* No domain has more candidates than there are words. *)
ASSUME WordsAssumption ==
    /\ Words \in Nat
    /\ \A spec \in Specs : \A played \in DOMAIN Game[spec] :
          ~Turn(spec, played).over => Len(Turn(spec, played).request.keys) <= Words

VARIABLES
    lineup,     \* the duels yet to be played
    stage,
    manifest, control, sessions, cursors,   \* the run
    keys, current, records, closure, ending, \* its environment and recorder
    shelf,      \* sealed episodes: envelope, evidence and the control of the run
    altered,    \* whether something was altered after it was sealed
    shard, bundle, options,                 \* what is before admission
    receipts, admitted,                     \* what was issued, and for which shards
    dataset

run == <<manifest, control, sessions, cursors, keys, current, records, closure, ending>>
batch == <<shard, bundle, options>>
vars == <<version, lineup, stage, run, shelf, altered, batch, receipts, admitted, dataset>>

Idle == /\ manifest = None /\ control = None /\ sessions = None /\ cursors = None
        /\ keys = <<>> /\ current = None /\ records = <<>> /\ closure = None /\ ending = None

CollectionInit ==
    /\ version \in {1, 2} /\ lineup \in Lineups
    /\ stage = "collecting" /\ Idle
    /\ shelf = <<>> /\ altered = FALSE
    /\ shard = {} /\ bundle = None /\ options = None
    /\ receipts = {} /\ admitted = {} /\ dataset = {}

----------------------------------------------------------------------------
(* A run.  The recorder takes the boundary over: a frame is awaited, or the *)
(* episode closed.                                                          *)
TakeBoundary(next) ==
    IF next.kind = "frame"
    THEN current' = next.frame /\ UNCHANGED <<closure, ending>> /\ stage' = "playing"
    ELSE current' = None /\ closure' = ClosureOf(next) /\ ending' = next /\ stage' = "closed"

Begin(spec, c, roster) ==
    /\ stage = "collecting" /\ manifest = None /\ ~altered
    /\ lineup # <<>> /\ spec = Head(lineup) /\ lineup' = Tail(lineup)
    /\ ValidProvenance(roster.provenance, spec)
    /\ IF roster.sessions # None THEN SessionsFit(roster.sessions, roster.provenance)
       ELSE \A a \in roster.provenance.assignments : ~UsesRng(a.artifact)
    /\ manifest' = [environment |-> "certified", episode |-> spec,
                    provenance |-> roster.provenance, rejections |-> 0]
    /\ control' = c
    /\ sessions' = roster.sessions
    /\ cursors' = [player \in {0, 1} |-> 0]
    /\ TakeBoundary(Answer(spec, c, <<>>))
    /\ UNCHANGED <<keys, records, shelf, altered, batch, receipts, admitted, dataset>>

Deciding == CHOOSE a \in Active(manifest.provenance, current.player, current.index) : TRUE

CursorAfter(cursor, redraws) == cursor + 1 + redraws

(* RandomLegalPolicy::select: a candidate at a drawn position, and how far  *)
(* the cursor of the stream has come; one candidate needs no word.          *)
Select(key, cursor) ==
    LET n == Len(current.request.keys)
    IN  IF ~UsesRng(Deciding.artifact)
        THEN key \in Range(current.request.keys) /\ cursor = cursors[current.player]
        ELSE IF ~R!Bounded(n)
        THEN key = current.request.keys[1] /\ cursor = cursors[current.player]
        ELSE \E raw \in 0..(Words - 1), redraws \in 0..1 :
                /\ R!Accepted(raw, n)
                /\ redraws = 1 => R!Threshold(n) > 0
                /\ key = current.request.keys[R!Choice(raw, n) + 1]
                /\ ~R!Exhausted(cursors[current.player] + redraws)
                /\ cursor = CursorAfter(cursors[current.player], redraws)

(* make_policy_rng_attribution *)
Attribution(cursor) ==
    IF UsesRng(Deciding.artifact)
    THEN Draw(Deciding, current.index, sessions[current.player].stream,
              cursors[current.player], cursor)
    ELSE NoDraw(Deciding, current.index)

(* on_step_accepted *)
Record(key, attribution, next) ==
    /\ AttributionFits(manifest.provenance, current, attribution)
    /\ records' = Append(records, NewRecord(current, key, attribution, next))
    /\ TakeBoundary(next)

Play(key, cursor, fails) ==
    /\ stage = "playing"
    /\ Select(key, cursor)
    /\ keys' = Append(keys, key)
    /\ cursors' = [cursors EXCEPT ![current.player] = cursor]
    /\ Record(key, Attribution(cursor),
              IF fails THEN Failure(manifest.episode, keys')
              ELSE Answer(manifest.episode, control, keys'))
    /\ UNCHANGED <<lineup, manifest, control, sessions, shelf, altered, batch, receipts,
                   admitted, dataset>>

(* fail_closed: the attribution is not the acting player's.  The action has *)
(* happened, but it has no record.                                          *)
Misattribute(key, wrong) ==
    /\ stage = "playing"
    /\ key \in Range(current.request.keys)
    /\ wrong \in manifest.provenance.assignments
    /\ ~AttributionFits(manifest.provenance, current, NoDraw(wrong, current.index))
    /\ keys' = Append(keys, key)
    /\ closure' = FailedClosure(Len(records))
    /\ current' = None /\ stage' = "closed"
    /\ UNCHANGED <<lineup, manifest, control, sessions, cursors, records, ending, shelf, altered,
                   batch, receipts, admitted, dataset>>

(* on_step_rejected, of the policy's own making: the episode is quarantined *)
Rejected ==
    /\ stage = "playing" /\ manifest.rejections < MaxRejections
    /\ manifest' = [manifest EXCEPT !.rejections = @ + 1]
    /\ UNCHANGED <<lineup, stage, control, sessions, cursors, keys, current, records, closure,
                   ending, shelf, altered, batch, receipts, admitted, dataset>>

(* on_interrupt_accepted *)
Cancel ==
    /\ stage = "playing"
    /\ ending' = Cancelled(manifest.episode, control, keys)
    /\ closure' = PendingClosure(current)
    /\ records' = LedToPending(records, current)
    /\ current' = None /\ stage' = "closed"
    /\ UNCHANGED <<lineup, manifest, control, sessions, cursors, keys, shelf, altered, batch,
                   receipts, admitted, dataset>>

Envelope == [manifest |-> manifest, records |-> records, closure |-> closure]

(* seal, and what finalize_run and finalize_v2_collection keep with it. *)
Seal ==
    /\ stage = "closed" /\ WellFormed(Envelope)
    /\ shelf' = Append(shelf, [envelope |-> Envelope, control |-> control,
                               evidence |-> IF closure.kind = "interrupted"
                                            THEN EvidenceOf(ending) ELSE None])
    /\ stage' = "collecting"
    /\ manifest' = None /\ control' = None /\ sessions' = None /\ cursors' = None
    /\ keys' = <<>> /\ current' = None /\ records' = <<>> /\ closure' = None /\ ending' = None
    /\ UNCHANGED <<lineup, altered, batch, receipts, admitted, dataset>>

----------------------------------------------------------------------------
(* An episode just sealed is not what it was, or its evidence is not; as a  *)
(* bound, no other is played then.                                          *)
Alter ==
    /\ stage = "collecting" /\ manifest = None /\ ~altered /\ shelf # <<>>
    /\ \/ \E e \in Altered(Last(shelf).envelope) :
              IsEnvelope(e) /\ shelf' = [shelf EXCEPT ![Len(shelf)].envelope = e]
       \/ \E x \in AlteredEvidence(Last(shelf).evidence) :
              shelf' = [shelf EXCEPT ![Len(shelf)].evidence = x]
    /\ altered' = TRUE
    /\ UNCHANGED <<lineup, stage, run, batch, receipts, admitted, dataset>>

(* Mutant: initializations are collected once for a stream name. *)
EvidenceOfNames(envelopes) ==
    {InitEvidence(CHOOSE i \in Required(envelopes) : i.stream = s) :
        s \in {i.stream : i \in Required(envelopes)}}

(* A shard has an episode once (validate_shard): two runs that went alike   *)
(* cannot be in one.                                                        *)
Distinct == \A i, j \in DOMAIN shelf : shelf[i].envelope = shelf[j].envelope => i = j

(* add_rng_initialization_evidence; there is no place for it in version 2.  *)
InitializationEvidence(envelopes) ==
    IF version = 1 THEN {InitEvidence(init) : init \in Required(envelopes)} ELSE {}

Assemble(c) ==
    /\ stage = "collecting" /\ manifest = None /\ shelf # <<>> /\ Distinct
    /\ LET envelopes == {shelf[i].envelope : i \in DOMAIN shelf}
       IN  /\ shard' = envelopes
           /\ bundle' = Bundle(envelopes,
                  {[envelope |-> shelf[i].envelope, evidence |-> shelf[i].evidence] :
                      i \in {j \in DOMAIN shelf : shelf[j].evidence # None}},
                  InitializationEvidence(envelopes))
    /\ options' = [control |-> c, source |-> TRUE]
    /\ stage' = "assembled"
    /\ UNCHANGED <<lineup, run, shelf, altered, receipts, admitted, dataset>>

(* An entry of the bundle gets lost. *)
Misplace ==
    /\ stage = "assembled" /\ ~altered
    /\ \/ \E x \in bundle.interrupted : bundle' = [bundle EXCEPT !.interrupted = @ \ {x}]
       \/ \E x \in bundle.inits : bundle' = [bundle EXCEPT !.inits = @ \ {x}]
       \/ bundle' = [bundle EXCEPT !.shard = {}]
    /\ altered' = TRUE
    /\ UNCHANGED <<lineup, stage, run, shelf, shard, options, receipts, admitted, dataset>>

Admit ==
    /\ stage = "assembled" /\ Verified(shard, bundle, options)
    /\ receipts' = receipts \cup {Receipt(shard, bundle)}
    /\ admitted' = admitted \cup {shard}
    /\ shelf' = <<>>
    /\ stage' = "collecting"
    /\ UNCHANGED <<lineup, run, altered, batch, dataset>>

Refuse ==
    /\ stage = "assembled" /\ ~Verified(shard, bundle, options)
    /\ stage' = "refused"
    /\ UNCHANGED <<lineup, run, shelf, altered, batch, receipts, admitted, dataset>>

(* A manifest of members of the receipts, one of which may name the shard   *)
(* or the play of another; kept if it validates.                            *)
Publish(members) ==
    /\ stage = "collecting" /\ manifest = None /\ receipts # {} /\ dataset = {}
    /\ ValidDataset(members, receipts)
    /\ dataset' = members
    /\ stage' = "published"
    /\ UNCHANGED <<lineup, run, shelf, altered, batch, receipts, admitted>>

AllMembers == UNION {Members(r) : r \in receipts}
MixedUp(m) == {[m EXCEPT !.shard = r.shard] : r \in receipts}
              \cup {[m EXCEPT !.gameplay = o.gameplay] : o \in AllMembers}
              \cup {[m EXCEPT !.receipt = r] : r \in receipts}

Step ==
    \/ \E spec \in Specs, c \in Controls : \E roster \in Rosters(spec) : Begin(spec, c, roster)
    \/ \E key \in IF current = None THEN {} ELSE Range(current.request.keys) :
        \/ \E cursor \in 0..MaxCursor, fails \in BOOLEAN : Play(key, cursor, fails)
        \/ \E wrong \in manifest.provenance.assignments : Misattribute(key, wrong)
    \/ Rejected \/ Cancel \/ Seal
    \/ Alter
    \/ \E c \in {shelf[i].control : i \in DOMAIN shelf} : Assemble(c)
    \/ Misplace \/ Admit \/ Refuse
    \/ \E members \in {AllMembers} \cup
            UNION {{(AllMembers \ {m}) \cup {o} : o \in MixedUp(m)} : m \in AllMembers} :
          Publish(members)
CollectionNext == Step /\ UNCHANGED version

CollectionSpec == CollectionInit /\ [][CollectionNext]_vars

----------------------------------------------------------------------------
(***************************************************************************)
(* Properties.                                                              *)
(***************************************************************************)

(* An episode a shelf item may be admitted for: cleanly played to an end    *)
(* its evidence allows to replay.                                           *)
Admittable(item, c) ==
    /\ item.envelope.manifest.rejections = 0 /\ item.envelope.closure.kind # "failed"
    /\ item.envelope.closure.kind = "terminal" => item.control = c
    /\ version = 2 => Drawn(item.envelope) = {}

(* No honest shard is refused: whatever budgets, cancellations and policies *)
(* ended the episodes, with or without records, what the recorder sealed    *)
(* and the runner put beside it passes every check of the verification      *)
(* (finalize_run takes a refusal for a failure of the run).                 *)
HonestIsAdmitted ==
    stage = "refused" =>
        altered \/ \E i \in DOMAIN shelf : ~Admittable(shelf[i], options.control)

(* What is admitted could have been recorded from play, clean and to a      *)
(* proper end, under the control of its evidence or the one the verifier    *)
(* chose, each choice made by the policy in charge: an envelope altered in  *)
(* any field that says otherwise is not learned from, whether or not its    *)
(* digests were made to fit (replay_episode, replay_episode_v2).            *)
AdmittedWasPlayed ==
    \A r \in receipts : \A e \in r.shard :
        /\ e.manifest.rejections = 0
        /\ \E c \in Controls \cup {[process |-> x.evidence.process, actions |-> x.evidence.actions] :
                                      x \in EvidenceFor(r.evidence, e)} : WasPlayed(e, c)
        /\ \A i \in DOMAIN e.records :
              AttributionFits(e.manifest.provenance, e.records[i].frame, e.records[i].rng)

(* A published dataset holds admitted episodes only, each once, each with   *)
(* the shard it was admitted in and the identity of its own play, although  *)
(* a manifest may be made by anyone (validate_dataset_manifest).            *)
DatasetWasAdmitted ==
    \A m \in dataset :
        /\ m.shard \in admitted /\ m.envelope \in m.shard
        /\ m.record = RecordId(m.envelope) /\ m.gameplay = GameplayId(m.envelope)
        /\ \A o \in dataset : o.envelope = m.envelope => o = m

(* The draws from the stream of a player, among the records. *)
Draws(player, i) == records[i].frame.player = player /\ records[i].rng.mode = "cursor"
DrawsBefore(player, i) == {j \in 1..(i - 1) : Draws(player, j)}

(* Where a stream has come to before a record. *)
ComesTo(player, i, word) ==
    IF DrawsBefore(player, i) = {} THEN word = 0
    ELSE \E j \in DrawsBefore(player, i) :
            DrawsBefore(player, i) \subseteq 1..j /\ word = records[j].rng.post

(* The words of a stream are used one after the other, none twice, and each *)
(* candidate of a frame is as likely as any other: the draws a run records  *)
(* tile its stream from the first word on, and as many accepted words lead  *)
(* to one position as to the next.                                          *)
DrawsAreFair ==
    /\ \A player \in {0, 1} : \A i \in {i \in DOMAIN records : Draws(player, i)} :
        /\ ComesTo(player, i, records[i].rng.pre)
        /\ records[i].rng.post - records[i].rng.pre \in
              IF R!Bounded(Len(records[i].frame.request.keys)) THEN 1..2 ELSE {0}
    /\ current # None /\ R!Bounded(Len(current.request.keys)) =>
        LET n == Len(current.request.keys)
            Leading(i) == {raw \in 0..(Words - 1) : R!Accepted(raw, n) /\ R!Choice(raw, n) = i}
        IN  \A i \in 0..(n - 1) :
                Leading(i) # {} /\ Cardinality(Leading(i)) = Cardinality(Leading(0))
================================================================================
