# OCGForge in TLA+

This directory holds TLA+ modules that model OCGForge from the engine's messages
to what a model is trained and evaluated on, the TLC configurations that check
them on small instances, and proofs that TLAPS checks for all instances.

## The system and its parts

OCGForge drives the ocgcore rules engine as a deterministic episodic
environment, records what happens as trusted trajectories, and builds datasets
for supervised policies from them.  From the engine outwards:

| Part | Code | State it keeps | Operations | Hard behaviour |
|---|---|---|---|---|
| Core host | `src/core/core_host.cpp` | the duel, two counters | `process`, `submit_response` | may throw after the engine moved |
| Message decoder, continuations | `src/protocol/` | none; a continuation state travels in the request | `decode_messages`, `apply_continuation_action` | partial selections that must never dead-end; answers whose layout differs per family |
| Episode driver | `src/environment/episode_driver.cpp` | lifecycle, request, trace, metrics, two indices | `advance_until_boundary`, `apply_semantic_key`, `administrative_interrupt` | exceptions between two counters, two budgets, index widths |
| Episodic environment | `src/environment/episodic_environment.cpp`, `public_*.cpp` | frame, bindings, closures, token counters | `reset`, `step`, `interrupt`, terminal view | stale selections, closures of half-done calls, token exhaustion |
| Observation | `src/observation/`, `src/environment/public_safe_state.cpp` | session knowledge | `ingest`, `build`, projection, encoding | what was shown and is hidden again; names that must stay distinct |
| Recorder | `src/trajectory/recorder*.cpp` | records, current frame, closure, disposition | `on_reset_accepted`, `on_step_accepted`, ..., `seal` | must agree with what the environment reports, fails closed |
| Trajectory encoding | `src/trajectory/codec.cpp` and neighbours | none | writers, readers, validators, identities | each message is described four times |
| Policy runners | `src/policy/*runner*.cpp` | one run | `create`, `run` | quarantine after a rejection |
| Admission and replay | `src/trajectory/admission*.cpp`, `replay*.cpp`, manifests | none | `verify_candidate_shard_for_admission`, datasets | whole shard or nothing |
| Artifact storage | `src/trajectory/storage.cpp` | a directory | `publish_content_addressed_artifact` | racing publishers, crashes |
| Policies and teacher | `src/policy/`, `src/teacher/` | RNG cursor, strategy plan | `select`, commit, reject | state that must follow accepted actions only |
| M4 worker pool | `tools/m4/benchmark.py`, `tools/ygo_m4_worker/` | per worker: process, reader thread, event queue, job in flight, staged and published result | `start`, `run`, `close` | crashes, late and duplicated answers, timeouts, restarts, reader threads |
| Gameplay evaluation | `src/phase6/task5c_gameplay.cpp` | results per scheduled job | `run` | who is to blame for a failure, stale inference answers |
| Model input | `src/model/` | none | projection, encoding, ragged and padded batches, supervision rows | two frames that become one input, padding taken for rows |
| Phase 6 tools | `src/phase6/`, `tools/phase6/` | journals and published inputs | runner, recovery, materialization | interrupted acceptance runs |

`PROJECT.json` lists every component, the modules that model it, and for a
component that is not modelled the reason.

### How the parts interact

One thread carries an episode.  A policy runner owns an episodic environment and
a recorder; the environment owns the episode driver; the driver owns the core
host and the engine behind it.  Every interaction downwards is a call that
returns a value or throws; there are no callbacks upwards except script and log
readers, which change nothing modelled here.  What makes this stack hard is that
each layer keeps counters and copies of its own about the same events, updates
them at different points of one call, and may be left by an exception between
any two of them.

What a layer writes down, another reads later, in other code: a frame is
published by the environment and validated again when its episode is encoded, a
sealed episode is replayed by a new environment, a proposal of a teacher is
committed after the step it was made for, a batch of model inputs is read by
offsets that other code computed.  These agreements are the second subject.

Concurrency is in two places.  Shards are published as files by processes and
threads that know nothing of one another and may die at any point.  And the M4
coordinator drives worker processes through one reader thread each.

## Modules

| Module | Models | Builds on |
|---|---|---|
| `EpisodeDriver` | the driver and what it sees of the core host, decoder and engine | |
| `EpisodeContract` | what an environment promises a caller: an offer is answered at most once, a token is never used again, every call returns | |
| `EpisodicEnvironment` | the reset / step / interrupt facade; implements `EpisodeContract` | `EpisodeDriver` |
| `RecordedRun` | the policy runner, the recorder and the verdict, over the whole stack | `EpisodicEnvironment` |
| `WriteOnceStore` | what publication promises: a name is bound once, and an outcome says what the name holds | |
| `ArtifactStorage` | publication by temporary directory and hard link; implements `WriteOnceStore` | |
| `WorkerPool` | the coordinator, its reader threads and the worker processes | |
| `TeacherStrategy` | goals, lines, recovery, reconciliation: the functions of a teacher's decision | |
| `TeacherRun` | two teacher sessions, the runner that proposes, steps and commits, recorder and environment as they need them | `TeacherStrategy` |
| `WireKinds`, `Wire` | the vocabulary of the canonical encodings: writers, and the reader | |
| `PublicAction`, `DecisionRequest` | public identities; the rules of a recorded request, both versions | `WireKinds` |
| `TrajectoryWire` | every message of recorded episodes: validator, writer, reader, identity | `DecisionRequest`, `Wire` |
| `Continuation`, `MessageDecoder` | the seven kinds of continuations; from engine message to request | `WireKinds` |
| `PublicRequest` | what is published of a request | `MessageDecoder`, `DecisionRequest` |
| `Decisions` | a decision from message to answer, and how the engine reads answers (external) | `PublicRequest` |
| `PolicyRng`, `PolicyProvenance` | draws below a bound and their cursor; artifacts, assignments, initializations | |
| `Recording`, `Admission` | environment and recorder as functions of the choices; replay, evidence, receipts, datasets | `PolicyProvenance` |
| `Collection` | a caller from play to published dataset, with alterations in between | `Admission` |
| `CheckpointPolicy`, `GameplayEvaluation` | the evaluated policy behind its provider; the evaluator over its schedule | `Recording`, `Admission` |
| `PlayerObservation` | what a player sees of messages and of queries | `WireKinds` |
| `SafeState` | the public safe state: validators, writer, reader | `WireKinds` |
| `PairedWorlds` | two duels that differ only in what one player may not know, observed | `PlayerObservation`, `SafeState` |
| `ModelInput` | projection and encoding of a frame; supervision rows | `PublicAction` |
| `ModelBatch` | ragged and padded layouts of a batch of samples, of which it knows only the lists | |
| `*Proofs` | theorems about the module of that name (`RecordedRunProofs`: and about `EpisodeDriver`, `EpisodicEnvironment` and `ArtifactStorage`; `CollectionProofs`: and about `ModelBatch`; `PairedWorldsProofs` goes on in `PairedWorldsPublished`) | TLAPS |
| `MC*` | the instances for TLC | |

A definition that begins with a comment "Mutant" is a plausible bug, written
next to the definition it would replace.  It is used by nothing; `PROJECT.json`
pairs it with the property that would notice it.

### State and actions against the code

*EpisodeDriver.*  The variables are the fields of `EpisodeDriver` in
`episode_driver.cpp`: lifecycle, pending request, trace, the metrics that a
property needs, the two indices and the first failure.  A call is not one step.
Each engine call, each counter update that an exception can separate from its
neighbour and each exit of the loop is a step, so properties hold also in the
middle of a call.  A request is reduced to whether it continues a partial
answer, and which of its candidates end it with an engine response.  The engine
is free: it may answer a `process` call in every way the adapter accepts.

*EpisodicEnvironment.*  The facade's fields are variables of the same names;
`call` is the public call in progress and its inputs.  A call begins with
`Reset`, `Step`, `Interrupt` or the terminal view, continues with the driver's
own steps, and ends when `ConsumeBoundary` turns the driver's boundary into a
frame or a closure.  `published` and `transitions` are histories, kept for
properties only.  A frame's decision has no name of its own in the code either:
its identity is derived from the episode and the index, which is what
`DecisionIds` keeps.

*RecordedRun.*  `phase` is the place in `PolicyRunner::run_impl`; `boundary`,
`chosen` and `evidence` are its locals; `recorder`, `snapshot`, `records`,
`closure` and `rejections` are the recorder's members.  One action is one
reaction to one result of the environment, with every check the recorder makes
and the fail-closed exit each of them has.  The policy may return any public
key: `RandomLegal` returns only offered ones, but the runner does not rely on
that.

*ArtifactStorage.*  Per publisher there is a program counter of
`publish_content_addressed_artifact`; per process the counter of temporary
names; and on disk, for every temporary directory what it holds and for every
final name what it is bound to.  A hard link is modelled as what it is: the
final name and the payload are one file, so writing through one changes the
other.  `Crash` ends all threads of a process and restarts its counter.
`Intrude` is another program that puts something under a final name.

*WorkerPool.*  `process` is the child with its pipe, `reader` the place in
`_read_stdout` and the events it has not put yet, `queue` the `queue.Queue`,
`slot` the `_WorkerState`; `pc` with `cur`, `after`, `line`, `drained`, `why`
and `seeds` is where the one coordinator thread is and its locals.  Draining the
queue and putting the events back are separate steps, because the reader goes
on between them.  Which job a line answers is on the line; which *run* gave it
is not, and is kept for a property.

*TeacherStrategy, TeacherRun.*  A plan is the strategy state of a session;
`Propose` of `TeacherStrategy` is what `teacher_v2.cpp` and the goal-line
controller compute from profile, plan and one view: a selected key and the plan
proposed.  The truth of a predicate about an observation or a candidate is an
input.  In `TeacherRun` a session keeps `plan`, what it knows of the last
accepted action, and its `pending` proposal; one action is one exchange of
`run_impl` with the environment, and the second generation's own copy of the
proposal is `asked`.

*Decisions and its modules.*  A batch of messages is decoded, published, chosen
from and answered; `DecodeMessages`, `Apply` and `PublicRequest` are functions,
as they are in the code.  Where the code searches for a completion of a partial
selection, the model says that one exists.  A byte has `Base` values, so that
counts, signs and carries meet their limits on small messages.

*TrajectoryWire, SafeState.*  A stream is a sequence of cells.  Integers are
bytes of base `Base`; a word or a digest is one cell, because nothing in the
encodings depends on more than its equality, version and order.  Writers,
readers and validators are separate operators, because they are separate code.

*Recording, Admission, Collection.*  A duel is a table from choices to what the
environment answers, so playing and replaying are functions of the choices; the
environment's own control is the subject of `EpisodicEnvironment`.  `Collection`
keeps what lies between the calls: sealed episodes, their evidence, the shard,
receipts, the dataset.  What is not versioned is one definition for both
versions.

*CheckpointPolicy, GameplayEvaluation.*  `pending` is the proposal of the policy
object, `proposed` the evaluator's local; an answer of the provider is any of
the constants `Answers`.  `asked`, `used` and `faults` are histories.

*PairedWorlds.*  The moves change two fields and give the messages and query
results of both to the same observation code; the rules that say what a player
may know are in the moves, the code's treatment in `PlayerObservation`.
`Fields` and `Proper` say which fields the moves are made for.  The query of a
material (`MaterialQuery`) answers with the material's own record: the
repository builds the engine with
`third_party/patches/ocgcore/0001-fix-overlay-seq-parent-query.patch`, which
makes `OCG_DuelQuery` look it up under its host.  So the builder has the code of
every material and must not publish it under a face-down card, and must under an
open one, as an entity and in the counts (`MaterialVisible`).  Two fields look
the same to player 0 only if the materials of each card it may know are the same
(`SameCard`); of the materials of another card it knows the owners.

*ModelInput, ModelBatch.*  Pure functions: locators and passcodes become ranks,
samples become rows with offsets, rows become padded rows with masks and back.
The state machine around them is a caller's: it takes samples one by one
(`taken`), pads them (`padded`), and then one cell or mask bit may change before
the batch is unpadded (`changed`).  `ModelBatch` does not say what a sample is:
its validator is the constant `ValidSample`, which `MCModelInput` gives the
validator of `ModelInput`.

## Runs

| Run | Instance | What it shows |
|---|---|---|
| `environment` | 1 key, budgets 3 and 2, 3 tokens | the facade over the driver against every engine and caller, over several episodes of one specification: stale selections, closures of half-done calls, tokens up to their exhaustion, the contract, and that every call returns |
| `storage` | 2 processes of 1 thread, 1 name | crashes, leftovers, intruders, and that storage implements the store |
| `recorded_run` | 2 keys, budgets 3 and 3, 3 tokens | a whole run up to its verdict, with selections that are not offered |
| `pool` | 1 worker with 2 jobs, 2 workers with 1 job, up to 2 runs, up to 1 extra line | workers that answer, babble and die, across two calls of the pool, and that every call ends |
| `teacher_run` | 2 goals, 2 lines, 2 recovery edges, 34 decisions, 3 actions | plans stay coherent, commits are never refused, keys are selected only where they can be judged |
| `trajectory_wire` | a sample of every message in both versions, one cell changed | what is written is read, nothing else is, identities cover the episode |
| `decisions` | all small messages of all families | what can be answered is asked, in exactly one way, and answered as meant |
| `collection` | 2 duels, 4 controls, 3 rosters, 1 alteration | what was played is admitted, what is admitted was played |
| `gameplay` | schedules of 8 and 16 jobs over 8 duels, 2 faults in all, 2 calls | results are earned, blamed rightly, conserved; answers are current |
| `observation` | fields of 13 cards, and of 18 of which 5 are materials of open and face-down cards of both players; 3 moves | two duels alike in public are observed alike, publishably and completely |
| `model_input` | frames one feature apart, batches of 1 and 2 | inputs are injective, padding is exact, rows are the actions |
| `observation_mixed_shuffle` | as `observation` | violation, see Findings |

### Bounds

- `MaxIndex` stands for the width of the 32-bit trace indices, `TokenMax` for
  that of the 64-bit token counters.  They are widths and not cut-offs: the
  check that refuses the next token is part of the model, and 3 is large enough
  to reach it after ordinary work.  `MaxIndex` is out of reach of the runs; that
  the driver keeps its promises at that edge is part of its theorems, which hold
  for every width.
- `ProcessBudgets` and `SemanticBudgets` are budgets the configuration can have.
  Small values make either budget end an episode before a frame, after an
  action, or in the middle of one.
- `MaxAttempts` stands for the 1024 temporary names one call tries.
  `SeqMax` bounds a process's counter of names; a call past it is not
  followed.  With two processes that can crash, two names are enough for one to
  meet the directory the other left, and to run out of names.  Threads that
  share a counter are in the theorems, not in the run.
- A pool of `Pools` bounds in `runs` the calls of `run()` that are followed, and
  in `extra` the lines workers write beyond one answer to each job, all workers
  together: one is enough for a duplicate, a stray or an undecodable line at any
  point.  With one worker and two jobs the worker is replaced and goes on; with
  two workers and one job one is idle, late or dead while the other has the job.
- `MaxActions`, `MaxMoves` bound an episode of the teachers and a duel of the
  paired worlds.  Three are enough for a proposal, a recovery from it and the
  next proposal; and for a card to be shown, hidden or moved, and shuffled.
- `MaxFaults` and `MaxRuns` of the evaluation: two things that go wrong, in one
  job or in two, and a second call of a finished evaluator.
- `Base` is 8 instead of 256, `MaskWidth` 24 instead of 64, `Words` 4 instead of
  2^64, `MaxCursor` 5 instead of 2^64-1.  The samples contain values at the
  edge of these widths.
- One alteration between recording and admission, one cell changed in a stream
  or in a batch.  What two alterations could hide from one another is not
  searched.

Deadlock is not checked where the program may stop: a driver that is closed, a
caller that makes no more calls, a finished sample.

### Fairness

Liveness is checked under weak fairness of the code that runs once it is
called: the driver's steps under a call and the consumption of the boundary
(`PublicCallReturns`), and the steps of the coordinator (`CallsEnd`).  These are
loops of a running thread, which the scheduler gets back to.  No fairness is
assumed of callers, of crashes and intruders, or of the worker processes and
their readers: that `run()` ends rests on deadlines, which weak fairness lets
pass.  A coordinator step that is one of several possible ones (an event taken
or a deadline passed) needs no fairness of its own.  The other modules describe
sequential functions, of which safety is all there is to say; their
specifications state no fairness.

## Theorems

The proofs hold for all values of the constants that satisfy the named
assumptions, each stated in the module that declares the constants it is about:
any set of keys and specifications, any budgets and widths, any number of
processes and threads, any finite profile of a teacher that the code would load,
any decisions, any pool of workers; any duels, frames and registry of policies,
any caller of a collection, any rosters, controls and any answers of a provider;
any pair of fields that look the same to a player, with any number of slots.
The assumptions on duels, rosters and controls say what the C++ types and the
checked constructors say: a frame offers a finite set of keys, a roster names
two players of the registry, a width is a natural number.  `IsEnvelope` and
`IsAnswer` guard two actions that take a value from outside for the same reason:
every value of the type has these fields, and a model value has not.
`SlotsAssumption` says that slots are finitely many natural numbers, and
`StartsAssumption` that the two fields of a start are ones the engine can be in
(`Proper`), look the same to player 0 (`SameField`) and show nothing of the
opponent's hand yet; TLC evaluates both for the fields of the run.

`SamplesAssumption` says that a sample has its fourteen lists and as many keys as
candidates, `WidthsAssumption` that a requested width is a natural number.

Several theorems state properties no run checks, because a theorem leaves the
run nothing to add.

- `RecordedRunProofs`, on the driver: the driver's safety properties
  (`ActionAccounting`, `TraceFaithful`, `BudgetsRespected`,
  `MetricsExactAtBoundary`, `EngineInTurn`).  The inductive invariant
  `DriverInv` adds to them what holds in the middle of a call: where the engine
  is (`EngineMatchesCall`), how far the indices and counts may be apart there
  (`IndicesMatchCounts`), and what the last trace step can be
  (`LastStepMatchesCall`).  Without it no property survives the step after an
  exception.
- `RecordedRunProofs`, on the facade: the facade's safety properties and the
  safety part of the refinement of `EpisodeContract`.  `EnvironmentInv` ties the
  published frame, its bindings and the counters to the driver's boundary, and
  every frame ever published to counters that have moved on since: that is why
  a stale token cannot match.  The driver's steps are not proved again: a lemma
  says that under them the facade's variables do not move.  A second
  invariant, `AccountInv`, counts: frames are numbered by the actions before
  them, the driver has counted every action but one that failed first, and the
  engine has one response more than was reported only while a step fails.  From
  it follow `ClosureCountsActions` and `ResponsesReported`.
- `RecordedRunProofs`, on the run: the properties of the composed run.  `RunInv` is the
  conjunction of `EnvironmentInv` with the relation of the records to the
  transitions (`RecordsSound`), of the counts to the frames
  (`CountsFollowFrames`), of the recorder's episode to the environment's, and
  with what each phase knows (`PhaseHolds`).  The main consequence is that the
  recorder's many checks never fire on their own: it closes as failed only if
  the environment failed, and sealing is never refused.
- `RecordedRunProofs`, on storage: all safety properties of publication and the safety
  part of the refinement of `WriteOnceStore`.  The invariant says who owns a
  temporary directory and which of them are the same file as a final name; it
  is what keeps a process that starts counting at zero again from truncating a
  published artifact.
- `TeacherRunProofs`: first the functions of one decision.  A choice of the best
  exists (`BestExists`, by the least counterexample, because an induction over
  finite sets is not available); a selected goal is open and its line serves it;
  a recovery is proposed only for a plan that was just given up, so that it can
  never take up a goal that is achieved; every way to the next plan keeps it
  coherent; and nothing a profile can judge makes a proposal invalid.  Then
  `RunInv` says phase by phase what is pending, for which frame and from which
  base, and that no session has heard of anything later; `KnowInv` adds which
  accepted action each session knows.
- `WorkerPoolProofs`: the coordinator's safety properties, for any number of
  workers, jobs and calls.  Each rests on what the coordinator knows at each
  place of its program: of the jobs (`BookHolds`: no worker that is about to be
  given a job has one, a reaped worker has none, nothing is in flight between
  calls, what was published has a row), of the lines (`LinesAlwaysHold`: pipe,
  reader, queue and drained events of a slot come from its present process), and
  of the slots (`SlotsKnown`).  From the last follows `DeadAreGone`, which no
  run checks: a worker believed dead has ended, and so has its reader.

- `AdmissionProofs`: replay is sound and complete, as facts about the operators
  of `Admission` and `Recording`.  An envelope that replays is an episode some
  choices produce (`ReplayedWasPlayed`), so what a verified shard holds was
  played in the duel it names (`AdmissibleWasPlayed`).  And an episode that was
  played and sealed replays to itself (`HonestReplays`), with every verdict on
  the way to a receipt positive (`HonestIsVerified`).  Playing and replaying are
  recursive functions over the choices, and both facts go record by record: the
  replaying recorder stands where the playing one stood.
- `CollectionProofs`: the four properties of the run `collection`, for any
  duels and any caller.  `CollectionInv` says what every place of the pipeline
  holds of what passed the one before it: the episode being played is the choices
  made so far (`PlayingInv`), a closed one is sealed as it was recorded
  (`ClosedInv`), the shelf holds what was closed, unless it was altered
  (`ShelfInv`), the batch and the receipts what was admitted (`BatchInv`,
  `ReceiptsInv`).  That draws are fair rests on `StreamsInv`: the draws of an
  initialization lie one behind the other (`DrawsTile`), over all episodes that
  share it, and so no random word is used twice.
- `CollectionProofs`, on batches: padding is undone exactly (`UnpaddingHolds`),
  for any validator, samples, widths and batch sizes.  Offsets and the flattened
  lists are recursive functions, so the first lemmas say by the least
  counterexample what they are: offsets add up the lengths (`OffsetsAre`), and
  row `k` of part `i` is at the offset of `i` plus `k` (`FlattenedIs`).  Hence
  `LaidIs`: what is laid out is found again between its offsets.  In the padded
  batch a cell is a row of a sample and the other way round (`CellIs`,
  `CellBack`), and a mask in which every row has the one before it keeps exactly
  the first so many rows (`FirstRows`).  `UnpadsBack` and `PadsBack` are the two
  directions.  `PadsBack` is about every batch of the right shape, and not only
  about those that were padded: if it is accepted, padding what was unpadded
  gives the same batch, so no cell, not even one of padding, is passed over.  The
  invariant `LayoutInv` says that `padded` is what `Padded` made of the samples
  until a cell changes, and keeps its shape after (`ChangedStaysShaped`).
- `GameplayEvaluationProofs`: the four properties of the run `gameplay`, for any
  schedule and any provider.  `EvaluationInv` says which job is played with which
  assignment (`JobsInv`), what the recorder holds while it is (`PlayingInv`), and,
  once it is closed, which of five ways led there (`ClosedInv`): it ended, or the
  engine, the evaluated policy, its opponent or the commit of a proposal failed.
  Blame is deserved because `ResultsInv` carries that way into the result, and a
  job in which nothing failed is trusted because of `HonestIsVerified`.  The
  population is conserved by adding up disjoint sets of jobs, one per status.
  That the policy's answer is a best one (`BestIsBest`) uses the least
  counterexample again.
- `PairedWorldsProofs`: the observation of a player tells nothing of what is
  hidden from it (`HiddenStaysHidden`), unless the engine shuffles set cards of
  two owners together (`~MixedShuffle`), which the finding below is about.
  `HidesWhatIsHidden` compares two observations and is far from inductive.  The
  invariant compares the fields they are made of: `AlikeFields` has both fields
  proper, the same up to hidden codes and own decks, and as many shown cards of
  each code in the opponent's hand, for a shuffle may have moved those to
  different places (`HeldAlike`); the sessions of both duels are equal.

  `ObserveAlike` says that alike fields are observed alike.  Its core is a
  normal form of what the builder keeps: the cards of twelve queries one behind
  the other, of each query those that may be shown, in order.  Entities,
  ordinals, locators, relationships, zone counts, chain and references of the
  decision are then each shown to depend on that form, or on what is the same in
  both fields.  Where lists of any number of parts are joined (`FlattenSeq`), a
  least counterexample shows that one function (`Threads`) tells, in either
  field, which element of the joined list came from which place of which part.

  `MovesAlike` says that for each move in one duel that looks the same to player
  0 as a move in the other, the fields it leaves are alike and the messages it
  leaves are ingested alike.  It is proved move by move from lemmas on the parts
  of a field (what it means to replace a slot, a hand, a pile), so that each move
  has to say only which parts it changed.  A shuffle of set monsters is the one that needs
  the assumption: the owner of a card under another's control sees where it
  went, and only if every shuffled card is its controller's own are both orders
  hidden from player 0, or the same.

  The converse, that nothing the player may know is held back (`KnownIsTold`),
  speaks of one duel and needs only that its field stays proper (`ProperInv`), so
  it holds with shuffles of both owners' cards as well.  It is proved at the end
  of `PairedWorldsPublished`: `FieldIsTold` counts the entities of a description
  through the bijection that the normal form gives between them and the cards
  shown (`LikeCounts`).  `MaterialsThread` gives another, between the materials of
  a player and the entities below its cards.  With it each material is told once
  (`MaterialsAreTold`), and there are as many entities, and as many known ones, as
  the zone of materials counts (`MaterialsAreCounted`).
- `PairedWorldsPublished`: of one duel and of every sequence of moves, what is
  observed passes the validator of the safe state before it is written
  (`ObservationsArePublishable`).  The validator looks for a duplicate locator
  and for references without an entity, so the core is `EntitiesOnce`: a card
  at a visible place is told by the place, one of the opponent's hand by its code
  and the number of copies before it, material by its host and position.  Beside
  the field, the history of events must stay writable (`SoundSession`): each names
  a player and only cards that were there when it was reported.

Model-checked only:

- the liveness properties `PublicCallReturns` and `CallsEnd`, for which the
  prover has no rule;
- the invariants of `Decisions` and `MCTrajectoryWire`, and of `MCModelInput`
  `ModelsSeeEverything` and `RowIsTheAction`: they compute over data, by
  recursion over sequences or nested messages that `Wire` reads with a RECURSIVE
  operator, and what a recursive definition computes for every input is out of
  the prover's reach.

## Findings

`observation_mixed_shuffle` checks a statement of the repository that the code
does not keep.  `docs/DETERMINISM_AND_INFORMATION_SAFETY.md` lines 82 and 100
exclude that a card's identity is followed through a randomization.  When one
player controls set cards of both owners, and they are shuffled, the observation
of the other player names his own card at its new place, because every card
outside the main deck is visible to its owner.  The run `observation` leaves
such a shuffle out (`MixedShuffle = FALSE`); without it the two duels cannot be
told apart.

Disagreements met while modelling that no run is kept for:

- `docs/trajectory/PHASE3B_ACCEPTANCE.md:70` says that each accepted action
  creates exactly one record.  An action whose call fails between acceptance and
  the counter is accepted and not counted (which
  `docs/contracts/episodic-environment-v1.md:564-565` excludes as well), and the
  recorder fails closed without a record when such a transition arrives
  (`recorder.cpp:385`).
- `tools/m4/benchmark.py:680`: events a dead worker left on its queue are taken
  later and may count as further crashes, where a test expects one.
- `tools/m4/benchmark.py:696`: a worker that dies before its first job of a run
  is written, or just after its restart, is failed but not replaced, and with
  nothing else in flight the pool is given up although restarting is on.
- `tools/m4/benchmark.py:426`: a delayed duplicate that arrives after the final
  barrier waits on the queue, and answers the same job in the next run.
- `docs/contracts/policy-rng-sha256-counter-v1.md:124-126` wants one assignment
  per initialization; `validate_execution_binding`
  (`production_provenance.cpp:30-46`) accepts two that share one.
- The contract of the gameplay evaluation counts a job that produced nothing as
  not run; `task5c_gameplay.cpp:2660-2680` reports it as started.
- `docs/p5/P5_MODEL_CONTRACT.md:58` and `:848` speak of the public action
  identity without a version; the model input takes the keys of version 1 only.

## What is left out

Of the modelled parts:

- Power failure: `storage.cpp` does not sync, and a crash in the model is the
  death of a process whose files stay.
- Allocation failure, and the exits only it can reach: the failing exits of the
  runner after `interrupt`, and the recorder's `on_failure`.
- `force_unsupported_for_test`, a hook of the tests.  Overflow of 64-bit counts
  of engine calls, which the trace index refuses long before.
- Digests: names derived by hashing are distinct if what they are derived from
  is.  The block digest of the policy's random words: a word is any word.
- After failing closed the recorder may hold records that do not form a
  chain; no code seals a failed recorder, and the model does not ask whether it
  could.
- In the pool: memory sampling, timing, diagnostics, counters other than crashes
  and restarts; a worker that closes its output or input without exiting, which
  differs from one that does not answer only in the message; a replacement that
  fails its handshake and cannot be terminated either.  A failed start leaves no
  process but those that could not be terminated.
- Of the teachers: the predicate registry, the scores of the two stages and the
  explanations.  What a predicate says is an input of the model.
- Of the observation: the numeric statistics of a card are one property value;
  the public counts of zones other than the materials' are not related to the
  flags of their entities; a card that has materials does not leave its slot,
  change control or take part in a shuffle, though it may be turned, targeted and
  given more of them; a query of a material that the engine refuses (a material
  gone between two queries) is not modelled, and neither are materials among the
  candidates of a decision; that a decision among the opponent's hidden hand could be resolved to a revealed
  card of the same description is not modelled.
- Of the gameplay evaluation: the JSON codecs, the interval estimate and the
  subprocess that runs a provider.
- Of the model input: the loading of admitted envelopes for supervision
  (`validate_admitted_envelope`).

Not modelled, and why:

- Card data, script readers, the rules bundle: read-only lookups of files fixed
  before an episode starts.
- Queries and the diagnostic serialization of observations: parsing of the
  engine's buffers, and an encoding nothing is identified by.
- Canonical simulation: a loop over the driver with a fixed policy.
- The M4 worker process: the environment of `WorkerPool`, which lets it write
  anything and exit at any time.  M4 reports: arithmetic over finished runs.
- The Phase 6 acceptance runner with its recovery from a journal, and the
  conversion of admitted records into training files: scripts around files and
  subprocesses.  Training arithmetic is numeric code.
- Probes and conformance tools: single-run diagnostics around the library.
- The engine itself, the card scripts and the database: not in the repository.
  `Decisions` states what its decision contract says of each message family.

## What would come next

1. Liveness of a call of the pool beyond `CallsEnd`: that a worker that answers
   in time gets its row, which needs fairness of workers and readers as an
   assumption on the environment.
2. The recovery of an interrupted acceptance run from its journal
   (`tools/phase6/task4b_acceptance_recovery.py`), the one component with
   crashes and restarts that has no module.
3. An abstract collection specification (one verdict per run, records a prefix
   of what happened) that `RecordedRun` implements.
4. The predicate registry and the two stages of the teachers' scores.
