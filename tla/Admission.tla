------------------------------- MODULE Admission -------------------------------
(***************************************************************************)
(* Which recorded episodes may be learned from: replay in a new             *)
(* environment, the attribution of every record, the secret evidence that   *)
(* goes with a shard of episodes, and the receipt and dataset manifest that *)
(* are made of what was admitted.  Trajectories have two versions, and the     *)
(* second one's evidence has no room for random initializations.            *)
(***************************************************************************)
EXTENDS Recording

VARIABLE version      \* of the trajectories, 1 or 2: chosen once and for all

Keys(e, i) == [j \in 1..i |-> e.records[j].key]
Pending(e) == e.closure.pending # None

(* An envelope says what the recorder would have made of its keys, each of  *)
(* them offered by the frame the environment had come to.                   *)
WasOffered(e, c, i) ==
    LET before == Answer(e.manifest.episode, c, Keys(e, i - 1))
    IN  before.kind = "frame" /\ e.records[i].key \in Range(before.frame.request.keys)
WasPlayed(e, c) ==
    /\ \A i \in 0..Len(e.records) : Reached(e.manifest.episode, Keys(e, i))
    /\ \A i \in DOMAIN e.records : WasOffered(e, c, i)
    /\ LET cancelled == Answer(e.manifest.episode, c, Keys(e, Len(e.records))).kind = "frame"
       IN  RecordingOf(e, c, cancelled) = [records |-> e.records, closure |-> e.closure]

(* What replay has to run with: a terminal episode is replayed under the    *)
(* control the caller gives, an interrupted one under its own budgets.      *)
NoControl == [process |-> 0, actions |-> 0]
ReplayControl(e, evidence, options) ==
    IF e.closure.kind = "terminal"
    THEN IF evidence = None /\ options.control # None THEN options.control ELSE NoControl
    ELSE IF evidence = None \/ ~options.source THEN NoControl
         ELSE [process |-> evidence.process, actions |-> evidence.actions]
ValidControl(control) == control.process > 0 /\ control.actions > 0

(* resolve_identity_inputs *)
Resolved(manifest) == manifest.environment = "certified" /\ manifest.episode \in Specs

(* The boundary the new environment is at after i of the records; no answer *)
(* where it would have rejected one of their keys.                          *)
At(e, control, i) ==
    IF Reached(e.manifest.episode, Keys(e, i))
    THEN Answer(e.manifest.episode, control, Keys(e, i)) ELSE [kind |-> "rejected"]

(* Mutant: the regenerated frame is not compared. *)
StepReplaysUnseen(e, control, i) ==
    LET r == e.records[i]
        now == At(e, control, i - 1)
        next == At(e, control, i)
    IN  /\ now.kind = "frame"
        /\ r.key \in Range(now.frame.request.keys)
        /\ r.class = Class(r.key, now.frame.request)
        /\ r.successor = next.kind
        /\ next.kind = "frame" => r.target.index = next.frame.index
        /\ next.kind = "frame" => (i = Len(e.records)) = (r.target.kind = "pending")
        /\ next.kind = "failed" => FALSE

(* One record is what the environment regenerates: frame, candidate, class  *)
(* and successor.                                                           *)
StepReplays(e, control, i) ==
    LET r == e.records[i]
        now == At(e, control, i - 1)
        next == At(e, control, i)
    IN  /\ now.kind = "frame" /\ r.frame = now.frame
        /\ r.key \in Range(now.frame.request.keys)
        /\ r.class = Class(r.key, now.frame.request)
        /\ r.successor = next.kind /\ next.kind \in {"frame", "terminal", "interrupted"}
        /\ IF next.kind = "frame"
           THEN /\ r.target = Target(r.target.kind, next.frame)
                /\ (i = Len(e.records)) = (r.target.kind = "pending")
                /\ r.target.kind = "pending" => e.closure.pending = next.frame
           ELSE i = Len(e.records) /\ e.closure.kind = next.kind /\ ~Pending(e)

CompareTerminal(e, actual) ==
    /\ e.closure.kind = "terminal"
    /\ actual.episode = e.manifest.episode
    /\ actual.winner = e.closure.winner /\ actual.views = e.closure.views
    /\ actual.count = e.closure.count /\ actual.count = Len(e.records)
    /\ actual.last = e.closure.last

CompareInterrupted(e, evidence, actual) ==
    /\ evidence # None /\ e.closure.kind = "interrupted"
    /\ actual.episode = e.manifest.episode
    /\ \A field \in {"reason", "process", "actions", "processes", "step"} :
          actual[field] = evidence[field]
    /\ actual.count = evidence.counted
    /\ actual.count = e.closure.count /\ actual.count = Len(e.records)
    /\ actual.last = IF Pending(e) THEN e.closure.pending
                     ELSE IF e.records = <<>> THEN None ELSE Last(e.records).frame

(* replay_episode, replay_episode_v2 *)
Replays(e, evidence, options) ==
    LET control == ReplayControl(e, evidence, options)
        end == At(e, control, Len(e.records))
    IN  /\ WellFormed(e) /\ e.closure.kind # "failed"
        /\ Resolved(e.manifest)
        /\ evidence # None => evidence.episode = e.manifest.episode
        /\ ValidControl(control)
        /\ \A i \in DOMAIN e.records : StepReplays(e, control, i)
        /\ CASE Pending(e) ->
                 /\ end.kind = "frame" /\ end.frame = e.closure.pending
                 /\ CompareInterrupted(e, evidence,
                        Cancelled(e.manifest.episode, control, Keys(e, Len(e.records))))
             [] ~Pending(e) /\ end.kind = "terminal" -> CompareTerminal(e, end)
             [] ~Pending(e) /\ end.kind = "interrupted" -> CompareInterrupted(e, evidence, end)
             [] OTHER -> FALSE

----------------------------------------------------------------------------
(* The evidence of a shard: one entry for every interrupted episode, and in *)
(* the first version the raw initialization of every stream drawn from.     *)
EvidenceOf(interruption) ==
    [episode |-> interruption.episode, reason |-> interruption.reason,
     process |-> interruption.process, actions |-> interruption.actions,
     processes |-> interruption.processes, counted |-> interruption.count,
     step |-> interruption.step]

Drawn(e) == {i \in DOMAIN e.records : e.records[i].rng.mode # "none"}
Initializations(e) == {e.records[i].rng.stream.init : i \in Drawn(e)}
Required(shard) == UNION {Initializations(e) : e \in shard}

InterruptedIn(shard) == {e \in shard : e.closure.kind = "interrupted"}

Bundle(shard, interrupted, inits) ==
    [shard |-> shard, interrupted |-> interrupted, inits |-> inits]

EvidenceFor(bundle, e) == {x \in bundle.interrupted : x.envelope = e}

EvidenceExact(bundle, shard) ==
    /\ \A x, y \in bundle.interrupted : x.envelope = y.envelope => x = y
    /\ {x.envelope : x \in bundle.interrupted} = InterruptedIn(shard)
    /\ \A x \in bundle.interrupted :
        /\ x.evidence.episode = x.envelope.manifest.episode
        /\ version = 1 => Pending(x.envelope) = (x.evidence.reason = "administrative_cancel")

(* An entry names an initialization and holds raw material.                 *)
InitEvidence(init) == [identity |-> init, material |-> init.material]
InitializationsExact(bundle, shard) ==
    /\ Cardinality(bundle.inits) = Cardinality(Required(shard))
    /\ \A init \in Required(shard) : \E entry \in bundle.inits :
        /\ entry.identity = init
        /\ ValidInitialization(Initialization(init.contract, init.stream, entry.material), init)

(* validate_restricted_collection_evidence_bundle *)
ValidBundle(bundle, shard) ==
    /\ bundle.shard = shard
    /\ EvidenceExact(bundle, shard)
    /\ IF version = 1 THEN InitializationsExact(bundle, shard) ELSE bundle.inits = {}

(* validate_record_attribution *)
Attributed(e, r, bundle) ==
    /\ r.assignment = r.rng.assignment /\ r.rng.index = r.frame.index
    /\ Active(e.manifest.provenance, r.frame.player, r.frame.index) = {r.assignment}
    /\ r.assignment.artifact \in e.manifest.provenance.artifacts
    /\ IF r.rng.mode = "none" THEN ~UsesRng(r.assignment.artifact)
       ELSE /\ version = 1 /\ UsesRng(r.assignment.artifact)
            /\ HasDescriptor(r.assignment.artifact.rng)
            /\ Recomputes(r.rng.stream, r.assignment)
            /\ \E entry \in bundle.inits :
                  /\ entry.identity = r.rng.stream.init
                  /\ Descriptor(r.assignment.artifact.rng).uniqueCursor
                  /\ UniqueCursor(Initialization(r.rng.stream.contract, r.rng.stream.stream,
                                                 entry.material), entry.identity)

(* The streams of a whole shard have one owner each. *)
OneOwner(shard) ==
    \A e, f \in shard : \A i \in Drawn(e), j \in Drawn(f) :
        e.records[i].rng.stream = f.records[j].rng.stream
            => e.records[i].rng.assignment = f.records[j].rng.assignment

Eligible(e) == e.manifest.rejections = 0 /\ e.closure.kind # "failed"

Admissible(e, bundle, options) ==
    /\ WellFormed(e) /\ Eligible(e)
    /\ Resolved(e.manifest)
    /\ ValidProvenance(e.manifest.provenance, e.manifest.episode)
    /\ \A i \in DOMAIN e.records : Attributed(e, e.records[i], bundle)
    /\ LET own == EvidenceFor(bundle, e)
       IN  Replays(e, IF own = {} THEN None ELSE (CHOOSE x \in own : TRUE).evidence, options)

(* verify_candidate_shard_for_admission and                                 *)
(* verify_collection_for_admission_v2: all of a shard or nothing.           *)
Verified(shard, bundle, options) ==
    /\ \A e \in shard : WellFormed(e)
    /\ version = 2 => shard # {}
    /\ ValidBundle(bundle, shard)
    /\ \A e \in shard : Admissible(e, bundle, options)
    /\ OneOwner(shard)

----------------------------------------------------------------------------
(* Identities of an episode: of its play alone, and of the whole record.    *)
GameplayId(e) ==
    [episode |-> e.manifest.episode, closure |-> e.closure,
     records |-> [i \in DOMAIN e.records |->
                    [frame |-> e.records[i].frame, key |-> e.records[i].key,
                     class |-> e.records[i].class, successor |-> e.records[i].successor,
                     target |-> e.records[i].target]]]
RecordId(e) == [manifest |-> e.manifest, closure |-> e.closure, records |-> e.records]

Commitment(e) == [record |-> RecordId(e), gameplay |-> GameplayId(e), envelope |-> e,
                  closure |-> e.closure.kind]

(* issue_admission_receipt *)
Receipt(shard, bundle) ==
    [shard |-> shard, evidence |-> bundle, entries |-> {Commitment(e) : e \in shard}]

Member(receipt, c) ==
    [record |-> c.record, gameplay |-> c.gameplay, receipt |-> receipt,
     shard |-> receipt.shard, envelope |-> c.envelope]

(* build_dataset_manifest, from one receipt. *)
Members(receipt) == {Member(receipt, c) : c \in receipt.entries}

(* Mutant: the shard of a member is not held against its receipt. *)
CommittedAnywhere(member, receipts) ==
    /\ member.receipt \in receipts
    /\ \E c \in member.receipt.entries :
        c.record = member.record /\ c.gameplay = member.gameplay /\ c.envelope = member.envelope

Committed(member, receipts) ==
    /\ member.receipt \in receipts
    /\ member.receipt.shard = member.shard
    /\ \E c \in member.receipt.entries :
        c.record = member.record /\ c.gameplay = member.gameplay /\ c.envelope = member.envelope

(* validate_dataset_manifest: every member is a commitment of a receipt,    *)
(* and no record is a member twice.                                         *)
ValidDataset(members, receipts) ==
    /\ \A m \in members : Committed(m, receipts)
    /\ \A m, o \in members : m.record = o.record => m = o
================================================================================
