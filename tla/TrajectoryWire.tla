----------------------------- MODULE TrajectoryWire -----------------------------
(***************************************************************************)
(* The canonical encoding of recorded episodes, in both versions n of the   *)
(* trajectory contract: every message has a validator, a writer and a       *)
(* reader, written separately in the code, and every identity is a digest   *)
(* of what a writer wrote.                                                  *)
(*                                                                          *)
(* An optional value is a sequence of length at most one.  Texts are cells  *)
(* (see WireKinds) and always well-formed UTF-8 when written.               *)
(***************************************************************************)
EXTENDS DecisionRequest

CONSTANTS Before(_, _),   \* the order of texts
          SeedWords(_),   \* derive_seed_bundle: the engine's seed words of a root seed
          Config          \* the certified environment, apart from its versioned contracts

Trajectory(n) == Versioned("trusted_trajectory", n)
Environment(n) == Versioned("episodic_environment", n + 1)
Provenance == Versioned("policy_provenance", 1)
NoRng == Versioned("no_policy_rng", 1)
ArtifactDomain == Versioned("policy_artifact_identity", 1)
ArtifactPrefix == Versioned("policy_artifact", 1)
AssignmentDomain == Versioned("participant_assignment_identity", 1)
AssignmentPrefix == Versioned("participant_policy_assignment", 1)
InitializationDomain == Versioned("policy_rng_initialization_identity", 1)
InitializationPrefix == Versioned("policy_rng_initialization", 1)
StreamDomain == Versioned("policy_rng_stream_identity", 1)
StreamPrefix == Versioned("policy_rng", 1)
DecisionDomain == Versioned("policy_rng_decision_provenance", 1)
EvidenceSchema(n) == Versioned("restricted_replay_evidence", n)
EnvironmentSchema(n) == Versioned("environment_identity", n + 1)
EpisodeSchema == Versioned("episode_identity", 1)
ObservationSchema == Versioned("public_environment_observation", 1)

MaxU64 == Base^8 - 1

StrictlySorted(texts) == \A i \in 2..Len(texts) : Before(texts[i - 1], texts[i])
Distinct(s) == \A i, j \in DOMAIN s : s[i] = s[j] => i = j
Field(values, Of(_)) == [i \in DOMAIN values |-> Of(values[i])]

(* Identities of contracts carry a version, identities of content a digest. *)
IsContract(text) == Len(text) = 1 /\ IsWord(text[1]) /\ text[1][3] > 0
IsContent(text) == Len(text) = 2 /\ IsContract(<<text[1]>>) /\ IsDigest(<<text[2]>>)
IsStreamToken(text) == Len(text) = 1 /\ IsWord(text[1]) /\ text[1][3] = 0

----------------------------------------------------------------------------
(* The environment and episode identity inputs (identity_resolver).        *)
CertifiedConfig(n) ==
    Config @@ [contract |-> Environment(n), action |-> Schema(n),
               domain |-> DomainSchema(n), decision |-> DecisionSchema(n)]

PutDecks(decks) == List(decks, LAMBDA d : Text(d.id) \o Text(d.sha256))

EnvironmentBytes(n, c) ==
    Texts(<<EnvironmentSchema(n), EnvironmentSchema(n), c.contract, c.action, c.domain,
            c.decision, c.other>>)
    \o U(8, c.flags) \o PutDecks(c.decks) \o Text(c.closure)

EpisodeBytes(n, c, spec) ==
    Texts(<<EpisodeSchema, EpisodeSchema, Digest(EnvironmentBytes(n, c))>>) \o U(8, spec.seed)
    \o List(SeedWords(spec.seed), LAMBDA w : U(8, w)) \o U(1, spec.mirror) \o U(1, spec.starting)
    \o PutDecks(IF spec.mirror = 1 THEN Reverse(c.decks) ELSE c.decks)

Decks == ListOf(Message(<<"deck", 0>>), 8)

IdentityLayout(name) ==
    CASE name[1] = "environment" ->
            <<<<"", Only(EnvironmentSchema(name[2]))>>, <<"", Only(EnvironmentSchema(name[2]))>>,
              <<"contract", Only(Environment(name[2]))>>, <<"action", AnyText>>,
              <<"domain", AnyText>>, <<"decision", AnyText>>, <<"other", AnyText>>,
              <<"flags", UInt(8)>>, <<"decks", Decks>>, <<"closure", AnyText>>>>
      [] name[1] = "episode" ->
            <<<<"", Only(EpisodeSchema)>>, <<"", Only(EpisodeSchema)>>, <<"environment", AnyText>>,
              <<"seed", UInt(8)>>, <<"words", ListOf(UInt(8), 8)>>, <<"mirror", Code(1)>>,
              <<"starting", Code(1)>>, <<"decks", Decks>>>>
      [] name[1] = "deck" -> <<<<"id", AnyText>>, <<"sha256", AnyText>>>>

IdentityValid(name, v) ==
    CASE name[1] = "environment" -> TRUE
      [] name[1] = "episode" ->
            LET c == CertifiedConfig(name[2])
            IN  /\ v.environment = Digest(EnvironmentBytes(name[2], c))
                /\ v.words = SeedWords(v.seed)
                /\ v.decks = IF v.mirror = 1 THEN Reverse(c.decks) ELSE c.decks
      [] name[1] = "deck" -> TRUE

I == INSTANCE Wire WITH Layout <- IdentityLayout, Valid <- IdentityValid

(* is_current_certified_environment(_v3), of what decodes. *)
IsCertified(n, bytes) ==
    \E got \in {I!Accepted(<<"environment", n>>, bytes)} :
        got.ok /\ EnvironmentBytes(n, got.value) = EnvironmentBytes(n, CertifiedConfig(n))

IsEpisode(n, bytes) == I!Accepted(<<"episode", n>>, bytes).ok

----------------------------------------------------------------------------
(* Public observations; the safe state is a blob of its own encoding, which *)
(* says whose view it is.                                                   *)
SafeState(player, content) == U(1, player) \o Word(content)
IsSafeState(bytes) ==
    Len(bytes) = 2 /\ IsByte(bytes[1]) /\ bytes[1][1] <= 1 /\ IsWord(bytes[2])

Sorted(texts) == SortSeq(texts, Before)

(* What is written is sorted first; what is read has to be sorted.          *)
WritableObservation(v) ==
    /\ v.perspective <= 1 /\ v.state # <<>>
    /\ v.kind # <<>> => IsToken(v.kind[1])
    /\ v.player # <<>> => v.player[1] <= 1
    /\ \A i \in DOMAIN v.references : IsPrintable(v.references[i])
    /\ Distinct(v.references)

ReadableObservation(v) ==
    /\ WritableObservation(v) /\ StrictlySorted(v.references)
    /\ IsSafeState(v.state) /\ v.state[1] = Byte(v.perspective)

PutObservation(v) ==
    Text(ObservationSchema) \o Text(ObservationSchema) \o U(1, v.perspective) \o U(8, v.index)
    \o Blob(v.state) \o Opt(v.kind, Text) \o Opt(v.player, LAMBDA p : U(1, p))
    \o List(Sorted(v.references), Text)

ObservationDigest(v) == Digest(PutObservation(v))

----------------------------------------------------------------------------
(* Who decided: policy artifacts, participants and their random streams.    *)
PutArtifactInput(v) ==
    Texts(<<ArtifactDomain, ArtifactDomain, Provenance>>) \o U(1, v.kind)
    \o Texts(<<v.producer, v.inference, v.observation, v.action, v.sampling, v.rng>>)
    \o Opt(v.checkpoint, Text) \o Opt(v.search, Text) \o Opt(v.demonstration, Text)
    \o Opt(v.metadata, Text)

ArtifactId(v) == Identity(ArtifactPrefix, PutArtifactInput(v))

RandomLegal == 0
DeterministicHeuristic == 1
NeuralCheckpoint == 2
SearchAssisted == 3
ImportedDemonstration == 4

ValidArtifact(v) ==
    /\ v.kind <= ImportedDemonstration
    /\ \A id \in {v.producer, v.inference, v.observation, v.action} :
          IsContract(id) \/ IsContent(id)
    /\ IsContract(v.sampling) /\ IsContract(v.rng)
    /\ v.kind = DeterministicHeuristic => v.rng = NoRng
    /\ v.kind = RandomLegal => v.rng # NoRng
    /\ v.kind \in {DeterministicHeuristic, RandomLegal} =>
          v.checkpoint = <<>> /\ v.search = <<>> /\ v.demonstration = <<>>
    /\ \A content \in {v.checkpoint, v.demonstration, v.metadata} :
          content # <<>> => IsContent(content[1])
    /\ v.search # <<>> => IsContract(v.search[1]) \/ IsContent(v.search[1])
    /\ v.kind = NeuralCheckpoint => v.checkpoint # <<>>
    /\ v.kind = SearchAssisted => v.search # <<>>
    /\ v.kind = ImportedDemonstration => v.demonstration # <<>>
    /\ v.id = ArtifactId(v)

PutLeague(l) == U(8, l.generation) \o Text(l.member) \o Text(l.role)

PutAssignmentInput(v) ==
    Texts(<<AssignmentDomain, AssignmentDomain, Provenance>>)
    \o U(1, v.player) \o U(1, v.seat) \o U(1, v.deckRole) \o Text(v.deck) \o Text(v.deckSha256)
    \o U(1, v.role) \o Text(v.artifact) \o U(4, v.epoch) \o U(8, v.from) \o Opt(v.league, PutLeague)

AssignmentId(v) == Identity(AssignmentPrefix, PutAssignmentInput(v))

ValidAssignment(v) ==
    /\ v.player <= 1 /\ v.seat <= 1 /\ v.deckRole <= 1 /\ v.role <= 4
    /\ v.deck # <<>> /\ IsDigest(v.deckSha256) /\ IsIdentity(ArtifactPrefix, v.artifact)
    /\ v.league # <<>> => v.league[1].member # <<>> /\ IsToken(v.league[1].role)
    /\ v.id = AssignmentId(v)

PutInitializationInput(v) ==
    Texts(<<InitializationDomain, InitializationDomain, v.rng, v.stream>>) \o Blob(v.material)

InitializationId(v) == Identity(InitializationPrefix, PutInitializationInput(v))

ValidInitialization(v) ==
    /\ IsContract(v.rng)
    /\ IF v.rng = NoRng THEN v.stream = NoRng /\ v.material = <<>> /\ v.id = NoRng
       ELSE IsStreamToken(v.stream) /\ v.id = InitializationId(v)

PutStreamInput(v) ==
    Texts(<<StreamDomain, StreamDomain, v.artifact, v.assignment, v.rng, v.stream,
            v.initialization>>)

StreamId(v) == Identity(StreamPrefix, PutStreamInput(v))

ValidStream(v) ==
    /\ IsIdentity(ArtifactPrefix, v.artifact) /\ IsIdentity(AssignmentPrefix, v.assignment)
    /\ IsContract(v.rng) /\ IsStreamToken(v.stream)
    /\ IsIdentity(InitializationPrefix, v.initialization)
    /\ v.id = StreamId(v)

(* How the random stream moved at a decision: not at all, or a cursor or a  *)
(* state before and after.                                                  *)
NoStream == 0
CursorMode == 1
StateMode == 2

ValidRng(v) ==
    /\ IsIdentity(AssignmentPrefix, v.assignment)
    /\ IF v.moved.code = NoStream THEN {v.rng, v.contract, v.stream, v.initialization} = {NoRng}
       ELSE /\ IsIdentity(StreamPrefix, v.rng)
            /\ IsContract(v.contract) /\ v.contract # NoRng /\ IsStreamToken(v.stream)
            /\ IsIdentity(InitializationPrefix, v.initialization)

PutMoved(m) ==
    U(1, m.code) \o (CASE m.code = NoStream -> <<>>
                      [] m.code = CursorMode -> U(8, m.pre) \o U(8, m.post)
                      [] m.code = StateMode -> Blob(m.before) \o Blob(m.after))

PutRng(v) ==
    Texts(<<DecisionDomain, DecisionDomain>>) \o U(8, v.index)
    \o Texts(<<v.assignment, v.rng, v.contract, v.stream, v.initialization>>) \o PutMoved(v.moved)

Clean == 0
Quarantined == 1

ValidDisposition(v) == v.code = Quarantined => v.rejections # <<>>
PutDisposition(v) ==
    U(1, v.code) \o (IF v.code = Quarantined THEN List(v.rejections, Text) ELSE <<>>)

ValidProvenance(v) ==
    /\ \A i \in DOMAIN v.artifacts : ValidArtifact(v.artifacts[i])
    /\ \A i \in DOMAIN v.assignments : ValidAssignment(v.assignments[i])
    /\ StrictlySorted(Field(v.artifacts, LAMBDA a : a.id))
    /\ StrictlySorted(Field(v.assignments, LAMBDA a : a.id))

PutArtifact(v) == PutArtifactInput(v) \o Text(v.id)
PutAssignment(v) == PutAssignmentInput(v) \o Text(v.id)

PutProvenance(v) ==
    Texts(<<Provenance, Provenance>>) \o List(v.artifacts, PutArtifact)
    \o List(v.assignments, PutAssignment)

----------------------------------------------------------------------------
(* Frames and records. *)
PutCandidate(n, c) ==
    Text(Trajectory(n)) \o Text(c.kind) \o (IF n = 2 THEN U(1, c.selection) ELSE <<>>)
    \o Text(c.key) \o Described(c) \o Flag(c.submits)

PutContinuation(n, v) ==
    Text(Trajectory(n)) \o Text(v.kind) \o U(4, v.step)
    \o List(v.selected, LAMBDA i : U(4, i)) \o List(v.remaining, LAMBDA i : U(4, i))
    \o List(v.amounts, LAMBDA i : U(2, i))
    \o U(4, v.min) \o U(4, v.max) \o U(4, v.target) \o U(4, v.required)
    \o U(8, v.available) \o U(8, v.mask) \o U(4, v.steps)
    \o Flag(v.exact) \o Flag(v.greater) \o Flag(v.finish) \o Flag(v.cancel)

PutRequest(n, r) ==
    Text(Trajectory(n)) \o Text(r.kind) \o U(1, r.player)
    \o List(r.candidates, LAMBDA c : PutCandidate(n, c))
    \o Opt(r.continuation, LAMBDA v : PutContinuation(n, v))

Domain(n, r) == DomainDigest(n, r.kind, Field(r.candidates, LAMBDA c : c.key))

(* validate_public_frame, validate_v2_frame: the frame is the acting        *)
(* player's, and its three digests are those of what it holds.              *)
ValidFrame(n, f) ==
    /\ f.contract = Environment(n) /\ IsDigest(f.episode)
    /\ ValidRequest(n, f.request)
    /\ f.player <= 1 /\ f.request.player = f.player
    /\ f.observation.perspective = f.player /\ f.observation.index = f.index
    /\ WritableObservation(f.observation) /\ f.seen = ObservationDigest(f.observation)
    /\ f.domain = Domain(n, f.request)
    /\ f.decision = DecisionId(n, f.episode, f.index, f.player, f.request.kind, f.seen, f.domain)

PutFrame(n, f) ==
    Texts(<<Trajectory(n), f.contract, f.episode, f.decision>>) \o U(8, f.index) \o U(1, f.player)
    \o PutObservation(f.observation) \o Text(f.seen) \o PutRequest(n, f.request)
    \o Text(f.domain)

(* The successor of a decision: another frame, or the end that came.        *)
NextFrame == 0
TerminalEnd == 1
InterruptedEnd == 2
FailedEnd == 3
NextRecord == 0
PendingFrame == 1

PutSuccessor(s) ==
    U(1, s.code) \o (IF s.code = NextFrame THEN U(1, s.target) \o U(8, s.index) \o Text(s.decision)
                     ELSE <<>>)

Atomic == 0
Intermediate == 1
Final == 2

(* validate_public_record, validate_v2_public_record *)
ValidRecord(n, r) ==
    LET chosen == SelectSeq(r.frame.request.candidates, LAMBDA c : c.key = r.selected)
    IN  /\ ValidFrame(n, r.frame)
        /\ Len(chosen) = 1
        /\ r.class <= Final
        /\ (r.frame.request.continuation = <<>>) <=> (r.class = Atomic)
        /\ chosen[1].submits <=> (r.class # Intermediate)
        /\ r.successor.code = NextFrame =>
              /\ IsDigest(r.successor.decision)
              /\ r.frame.index # MaxU64 /\ r.successor.index = r.frame.index + 1

PutRecord(n, r) ==
    Text(Trajectory(n)) \o PutFrame(n, r.frame) \o Text(r.selected) \o U(1, r.class)
    \o PutSuccessor(r.successor)

(* validate_decision_record: who decided, with which stream, at this index. *)
ValidCollected(n, r) ==
    /\ ValidRecord(n, r.record)
    /\ IsIdentity(AssignmentPrefix, r.assignment) /\ ValidRng(r.rng)
    /\ r.rng.index = r.record.frame.index /\ r.rng.assignment = r.assignment

PutAttribution(r) == Text(Provenance) \o Text(r.assignment) \o PutRng(r.rng)
PutCollected(n, r) == Text(Trajectory(n)) \o PutRecord(n, r.record) \o PutAttribution(r)

----------------------------------------------------------------------------
(* How an episode closed. *)
Terminal == 0
Interrupted == 1
Failed == 2

NoReason == Base - 1   \* 255

(* The last index goes with the count of actions. *)
CountsAgree(count, last) ==
    IF count = 0 THEN last = <<>> ELSE last # <<>> /\ last[1] # MaxU64 /\ last[1] + 1 = count

(* The views of the two players: the second version takes them in any order. *)
ValidView(n, player, view, digest) ==
    /\ WritableObservation(view) /\ digest = ObservationDigest(view)
    /\ n = 1 => view.perspective = player

ValidClosure(n, c) ==
    /\ c.code = Terminal =>
          /\ c.winner <= 2 /\ c.reason # NoReason /\ CountsAgree(c.count, c.last)
          /\ ValidView(n, 0, c.view0, c.seen0) /\ ValidView(n, 1, c.view1, c.seen1)
    /\ c.code = Interrupted /\ c.pending # <<>> =>
          c.pending[1].index = c.count /\ ValidFrame(n, c.pending[1])

PutClosure(n, c) ==
    Text(Trajectory(n)) \o U(1, c.code)
    \o (CASE c.code = Terminal ->
                U(1, c.winner) \o U(1, c.reason) \o U(8, c.count) \o Opt(c.last, LAMBDA l : U(8, l))
                \o PutObservation(c.view0) \o Text(c.seen0)
                \o PutObservation(c.view1) \o Text(c.seen1)
          [] c.code = Interrupted -> U(8, c.count) \o Opt(c.pending, LAMBDA f : PutFrame(n, f))
          [] c.code = Failed ->
                U(1, c.failure) \o U(1, c.stage) \o Flag(c.mutated) \o U(8, c.count))

----------------------------------------------------------------------------
(* validate_manifest, validate_v2_manifest: both identity inputs are there, *)
(* have the digests the manifest names, and say what is certified.          *)
ValidManifest(n, m) ==
    /\ m.contract = Environment(n) /\ m.schema = EpisodeSchema
    /\ m.environment = Digest(m.environmentInput) /\ m.episode = Digest(m.episodeInput)
    /\ IsCertified(n, m.environmentInput) /\ IsEpisode(n, m.episodeInput)
    /\ ValidProvenance(m.provenance) /\ ValidDisposition(m.disposition)

PutManifest(n, m) ==
    Texts(<<Trajectory(n), m.contract, m.environment>>) \o Blob(m.environmentInput)
    \o Texts(<<m.schema, m.episode>>) \o Blob(m.episodeInput)
    \o PutProvenance(m.provenance) \o PutDisposition(m.disposition)

LeadsTo(successor, target, frame) ==
    /\ successor.code = NextFrame /\ successor.target = target
    /\ successor.decision = frame.decision

(* The last record's successor is the closure, and the closure counts.      *)
ClosesWith(n, e) ==
    LET count == Len(e.records)
        pending == e.closure.pending
        after(end) == e.records # <<>> => e.records[count].record.successor.code = end
    IN  /\ e.closure.count = count
        /\ CASE e.closure.code = Terminal -> CountsAgree(count, e.closure.last) /\ after(TerminalEnd)
             [] e.closure.code = Failed -> after(FailedEnd)
             [] e.closure.code = Interrupted ->
                   IF pending = <<>> THEN after(InterruptedEnd)
                   ELSE /\ pending[1].episode = e.manifest.episode
                        /\ pending[1].index = count
                        /\ e.records # <<>> =>
                              LeadsTo(e.records[count].record.successor, PendingFrame, pending[1])

(* validate_envelope_sequence, validate_v2_envelope_sequence: one episode,  *)
(* contiguous decisions, each leading to the next.                          *)
ValidEnvelope(n, e) ==
    /\ ValidManifest(n, e.manifest)
    /\ \A i \in DOMAIN e.records :
          LET frame == e.records[i].record.frame
          IN  /\ frame.episode = e.manifest.episode /\ frame.index = i - 1
              /\ ValidCollected(n, e.records[i])
              /\ i > 1 => LeadsTo(e.records[i - 1].record.successor, NextRecord, frame)
    /\ ClosesWith(n, e)

PutEnvelope(n, e) ==
    Text(Trajectory(n)) \o PutManifest(n, e.manifest)
    \o List(e.records, LAMBDA r : PutCollected(n, r)) \o PutClosure(n, e.closure)

GameplayDomain(n) == Versioned("public_gameplay_trajectory_identity", n)
GameplayPrefix(n) == Versioned("public_gameplay_trajectory", n)
RecordDomain(n) == Versioned("trajectory_record_identity", n)
RecordPrefix(n) == Versioned("trajectory_record", n)

(* What anyone may see of the episode; a failed one has no such identity.   *)
GameplayId(n, e) ==
    IF e.closure.code = Failed THEN Refused
    ELSE Identity(GameplayPrefix(n),
            Texts(<<GameplayDomain(n), GameplayDomain(n), Trajectory(n), e.manifest.contract,
                    e.manifest.environment, e.manifest.schema, e.manifest.episode>>)
            \o List(e.records, LAMBDA r : PutRecord(n, r.record)) \o PutClosure(n, e.closure))

(* Mutant: the identity leaves the attributions out. *)
RecordIdOfPlay(n, e) ==
    IF e.closure.code = Failed \/ e.manifest.disposition.code # Clean THEN Refused
    ELSE Identity(RecordPrefix(n),
            Texts(<<RecordDomain(n), RecordDomain(n), Trajectory(n), GameplayId(n, e)>>)
            \o PutProvenance(e.manifest.provenance) \o PutDisposition(e.manifest.disposition))

(* The whole record, with who played; a quarantined one has no identity.    *)
RecordId(n, e) ==
    IF e.closure.code = Failed \/ e.manifest.disposition.code # Clean THEN Refused
    ELSE Identity(RecordPrefix(n),
            Texts(<<RecordDomain(n), RecordDomain(n), Trajectory(n), GameplayId(n, e)>>)
            \o PutProvenance(e.manifest.provenance) \o List(e.records, PutAttribution)
            \o PutDisposition(e.manifest.disposition))

----------------------------------------------------------------------------
(* Restricted replay evidence: the budgets an interrupted episode ran with. *)
ValidEvidence(n, v) ==
    /\ v.contract = Environment(n) /\ IsDigest(v.episode) /\ v.closure = Interrupted
    /\ v.processBudget # 0 /\ v.actionBudget # 0
    /\ v.processes <= v.processBudget /\ v.actions <= v.actionBudget

PutEvidence(n, v) ==
    Text(EvidenceSchema(n)) \o (IF n = 2 THEN Text(Trajectory(n)) ELSE <<>>)
    \o Text(v.contract) \o Text(v.episode) \o U(1, v.closure) \o U(1, v.reason)
    \o U(8, v.processBudget) \o U(8, v.actionBudget) \o U(8, v.processes) \o U(8, v.actions)
    \o U(8, v.step)

----------------------------------------------------------------------------
(* What a reader of each message expects; messages are named with their     *)
(* version, 0 when there is one only.                                       *)
RejectionCodes ==
    Words({"incompatible_contract", "invalid_lifecycle", "wrong_episode", "stale_submission_token",
           "wrong_decision", "unknown_key", "domain_divergence", "unsupported_reason"})

All(fields, kind) == [i \in DOMAIN fields |-> <<fields[i], kind>>]
Expect(text) == <<<<"", Only(text)>>>>

ReferenceFields == <<<<"kind", Code(1)>>, <<"locator", AnyText>>>>
LeagueFields == <<<<"generation", UInt(8)>>>> \o All(<<"member", "role">>, AnyText)

ObservationFields ==
    Expect(ObservationSchema) \o Expect(ObservationSchema)
    \o <<<<"perspective", Code(1)>>, <<"index", UInt(8)>>, <<"state", AnyBlob>>,
         <<"kind", Maybe(AnyText)>>, <<"player", Maybe(Code(1))>>,
         <<"references", ListOf(AnyText, 4)>>>>

ArtifactFields ==
    Expect(ArtifactDomain) \o Expect(ArtifactDomain) \o Expect(Provenance)
    \o <<<<"kind", Code(ImportedDemonstration)>>>>
    \o All(<<"producer", "inference", "observation", "action", "sampling", "rng">>, AnyText)
    \o All(<<"checkpoint", "search", "demonstration", "metadata">>, Maybe(AnyText))
    \o <<<<"id", AnyText>>>>

AssignmentFields ==
    Expect(AssignmentDomain) \o Expect(AssignmentDomain) \o Expect(Provenance)
    \o <<<<"player", UInt(1)>>, <<"seat", Code(1)>>, <<"deckRole", Code(1)>>,
         <<"deck", AnyText>>, <<"deckSha256", AnyText>>, <<"role", Code(4)>>,
         <<"artifact", AnyText>>, <<"epoch", UInt(4)>>, <<"from", UInt(8)>>,
         <<"league", Maybe(Message(<<"league", 0>>))>>, <<"id", AnyText>>>>

InitializationFields ==
    Expect(InitializationDomain) \o Expect(InitializationDomain)
    \o <<<<"rng", AnyText>>, <<"stream", AnyText>>, <<"material", AnyBlob>>, <<"id", AnyText>>>>

StreamFields ==
    Expect(StreamDomain) \o Expect(StreamDomain)
    \o All(<<"artifact", "assignment", "rng", "stream", "initialization", "id">>, AnyText)

RngFields ==
    Expect(DecisionDomain) \o Expect(DecisionDomain) \o <<<<"index", UInt(8)>>>>
    \o All(<<"assignment", "rng", "contract", "stream", "initialization">>, AnyText)
    \o <<<<"moved", Choice(<<<<>>, All(<<"pre", "post">>, UInt(8)),
                             All(<<"before", "after">>, AnyBlob)>>)>>>>

DispositionFields ==
    <<<<"*", Choice(<<<<>>, <<<<"rejections", ListOf(OneOf(RejectionCodes), 4)>>>>>>)>>>>

ProvenanceFields ==
    Expect(Provenance) \o Expect(Provenance)
    \o <<<<"artifacts", ListOf(Message(<<"artifact", 0>>), 1)>>,
         <<"assignments", ListOf(Message(<<"assignment", 0>>), 1)>>>>

CONSTANT FailureCodes   \* how many there are: 16 in the code
FailureStages == 7
Reasons == 3

CandidateFields(n) ==
    Expect(Trajectory(n)) \o <<<<"kind", OneOf(ActionKinds)>>>>
    \o (IF n = 2 THEN <<<<"selection", Code(2)>>>> ELSE <<>>)
    \o <<<<"key", AnyText>>>> \o DescribedBy(AnyText, Int32) \o <<<<"submits", Boolean>>>>

ContinuationFields(n) ==
    Expect(Trajectory(n)) \o <<<<"kind", AnyText>>, <<"step", UInt(4)>>>>
    \o All(<<"selected", "remaining">>, ListOf(UInt(4), 4)) \o <<<<"amounts", ListOf(UInt(2), 2)>>>>
    \o All(<<"min", "max", "target", "required">>, UInt(4))
    \o All(<<"available", "mask">>, UInt(8)) \o <<<<"steps", UInt(4)>>>>
    \o All(<<"exact", "greater", "finish", "cancel">>, Boolean)

RequestFields(n) ==
    Expect(Trajectory(n))
    \o <<<<"kind", OneOf(DecisionKinds)>>, <<"player", Code(1)>>,
         <<"candidates", ListOf(Message(<<"candidate", n>>), 1)>>,
         <<"continuation", Maybe(Message(<<"continuation", n>>))>>>>

FrameFields(n) ==
    Expect(Trajectory(n)) \o <<<<"contract", Only(Environment(n))>>>>
    \o All(<<"episode", "decision">>, AnyText)
    \o <<<<"index", UInt(8)>>, <<"player", Code(1)>>,
         <<"observation", Message(<<"observation", 0>>)>>, <<"seen", AnyText>>,
         <<"request", Message(<<"request", n>>)>>, <<"domain", AnyText>>>>

SuccessorFields == <<<<"target", Code(1)>>, <<"index", UInt(8)>>, <<"decision", AnyText>>>>

RecordFields(n) ==
    Expect(Trajectory(n))
    \o <<<<"frame", Message(<<"frame", n>>)>>, <<"selected", AnyText>>, <<"class", Code(Final)>>,
         <<"successor", Choice(<<SuccessorFields, <<>>, <<>>, <<>>>>)>>>>

CollectedFields(n) ==
    Expect(Trajectory(n)) \o <<<<"record", Message(<<"record", n>>)>>>> \o Expect(Provenance)
    \o <<<<"assignment", AnyText>>, <<"rng", Message(<<"rng", 0>>)>>>>

ClosureFields(n) ==
    LET view == Message(<<"observation", 0>>)
    IN  Expect(Trajectory(n))
        \o <<<<"*", Choice(<<
             <<<<"winner", UInt(1)>>, <<"reason", UInt(1)>>, <<"count", UInt(8)>>,
               <<"last", Maybe(UInt(8))>>, <<"view0", view>>, <<"seen0", AnyText>>,
               <<"view1", view>>, <<"seen1", AnyText>>>>,
             <<<<"count", UInt(8)>>, <<"pending", Maybe(Message(<<"frame", n>>))>>>>,
             <<<<"failure", Code(FailureCodes - 1)>>, <<"stage", Code(FailureStages - 1)>>,
               <<"mutated", Boolean>>, <<"count", UInt(8)>>>>>>)>>>>

ManifestFields(n) ==
    Expect(Trajectory(n))
    \o <<<<"contract", Only(Environment(n))>>, <<"environment", AnyText>>,
         <<"environmentInput", AnyBlob>>, <<"schema", AnyText>>, <<"episode", AnyText>>,
         <<"episodeInput", AnyBlob>>, <<"provenance", Message(<<"provenance", 0>>)>>,
         <<"disposition", Message(<<"disposition", 0>>)>>>>

EnvelopeFields(n) ==
    Expect(Trajectory(n))
    \o <<<<"manifest", Message(<<"manifest", n>>)>>,
         <<"records", ListOf(Message(<<"collected", n>>), 1)>>,
         <<"closure", Message(<<"closure", n>>)>>>>

EvidenceFields(n) ==
    Expect(EvidenceSchema(n)) \o (IF n = 2 THEN Expect(Trajectory(n)) ELSE <<>>)
    \o <<<<"contract", Only(Environment(n))>>, <<"episode", AnyText>>, <<"closure", Code(1)>>,
         <<"reason", Code(Reasons - 1)>>>>
    \o All(<<"processBudget", "actionBudget", "processes", "actions", "step">>, UInt(8))

TrajectoryLayout(name) ==
    LET n == name[2]
    IN
    CASE name[1] = "choice" -> ChoiceFields
      [] name[1] = "reference" -> ReferenceFields
      [] name[1] = "league" -> LeagueFields
      [] name[1] = "observation" -> ObservationFields
      [] name[1] = "artifact" -> ArtifactFields
      [] name[1] = "assignment" -> AssignmentFields
      [] name[1] = "initialization" -> InitializationFields
      [] name[1] = "stream" -> StreamFields
      [] name[1] = "rng" -> RngFields
      [] name[1] = "disposition" -> DispositionFields
      [] name[1] = "provenance" -> ProvenanceFields
      [] name[1] = "candidate" -> CandidateFields(n)
      [] name[1] = "continuation" -> ContinuationFields(n)
      [] name[1] = "request" -> RequestFields(n)
      [] name[1] = "frame" -> FrameFields(n)
      [] name[1] = "record" -> RecordFields(n)
      [] name[1] = "collected" -> CollectedFields(n)
      [] name[1] = "closure" -> ClosureFields(n)
      [] name[1] = "manifest" -> ManifestFields(n)
      [] name[1] = "envelope" -> EnvelopeFields(n)
      [] name[1] = "evidence" -> EvidenceFields(n)

(* read_optional_public_choice: its own rules, without the bound on codes.  *)
ReadableChoice(c) ==
    CASE c.kind \in {YesNo, EffectYesNo} -> c.value <= 1 /\ c.response = <<>>
      [] c.kind = EffectChoice -> c.response = <<>>
      [] c.kind \in {OptionValue, AnnouncementNumber} -> c.response # <<>>
      [] OTHER -> FALSE

WritableMessage(name, v) ==
    LET n == name[2]
    IN
    CASE name[1] = "observation" -> WritableObservation(v)
      [] name[1] = "artifact" -> ValidArtifact(v)
      [] name[1] = "assignment" -> ValidAssignment(v)
      [] name[1] = "initialization" -> ValidInitialization(v)
      [] name[1] = "stream" -> ValidStream(v)
      [] name[1] = "rng" -> ValidRng(v)
      [] name[1] = "disposition" -> ValidDisposition(v)
      [] name[1] = "provenance" -> ValidProvenance(v)
      [] name[1] = "candidate" -> ValidCandidate(n, v)
      [] name[1] = "continuation" -> ValidContinuation(v)
      [] name[1] = "request" -> ValidRequest(n, v)
      [] name[1] = "frame" -> ValidFrame(n, v)
      [] name[1] = "record" -> ValidRecord(n, v)
      [] name[1] = "collected" -> ValidCollected(n, v)
      [] name[1] = "closure" -> ValidClosure(n, v)
      [] name[1] = "manifest" -> ValidManifest(n, v)
      [] name[1] = "envelope" -> ValidEnvelope(n, v) /\ ValidClosure(n, v.closure)
      [] name[1] = "evidence" -> ValidEvidence(n, v)

ReadableMessage(name, v) ==
    CASE name[1] = "choice" -> ReadableChoice(v)
      [] name[1] = "reference" -> v.locator # <<>>
      [] name[1] = "league" -> TRUE
      [] name[1] = "observation" -> ReadableObservation(v)
      [] OTHER -> WritableMessage(name, v)

T == INSTANCE Wire WITH Layout <- TrajectoryLayout, Valid <- ReadableMessage

Put(name, v) ==
    LET n == name[2]
    IN
    CASE name[1] = "observation" -> PutObservation(v)
      [] name[1] = "artifact" -> PutArtifact(v)
      [] name[1] = "assignment" -> PutAssignment(v)
      [] name[1] = "initialization" -> PutInitializationInput(v) \o Text(v.id)
      [] name[1] = "stream" -> PutStreamInput(v) \o Text(v.id)
      [] name[1] = "rng" -> PutRng(v)
      [] name[1] = "disposition" -> PutDisposition(v)
      [] name[1] = "provenance" -> PutProvenance(v)
      [] name[1] = "candidate" -> PutCandidate(n, v)
      [] name[1] = "continuation" -> PutContinuation(n, v)
      [] name[1] = "request" -> PutRequest(n, v)
      [] name[1] = "frame" -> PutFrame(n, v)
      [] name[1] = "record" -> PutRecord(n, v)
      [] name[1] = "collected" -> PutCollected(n, v)
      [] name[1] = "closure" -> PutClosure(n, v)
      [] name[1] = "manifest" -> PutManifest(n, v)
      [] name[1] = "envelope" -> PutEnvelope(n, v)
      [] name[1] = "evidence" -> PutEvidence(n, v)

(* The canonical bytes of a value.  A decoder reads what Accepted says, and *)
(* then compares the canonical bytes of what it read with those it was given. *)
Canonical(name, v) == IF WritableMessage(name, v) THEN Put(name, v) ELSE Refused

============================================================================
