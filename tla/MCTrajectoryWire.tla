--------------------------- MODULE MCTrajectoryWire ---------------------------
(* A sample of every message, encoded in both versions, and what a decoder  *)
(* makes of the bytes when one cell of them is changed, lost or doubled.    *)
EXTENDS TrajectoryWire

MCConfig == [other |-> Word("rules"), flags |-> 3,
             decks |-> <<[id |-> Word("deck_a"), sha256 |-> Digest(Word("a"))],
                         [id |-> Word("deck_b"), sha256 |-> Digest(Word("b"))]>>,
             closure |-> Word("scripts")]
MCSeedWords(seed) == <<seed + 1>>

Spec0 == [seed |-> 5, mirror |-> 1, starting |-> 0]

Sealed(v, Id(_)) == v @@ ("id" :> Id(v))
Impl == Versioned("policy", 1)
Learned == [kind |-> NeuralCheckpoint, producer |-> Impl, inference |-> Impl \o Digest(Word("i")),
            observation |-> Impl, action |-> Impl, sampling |-> Impl, rng |-> Impl,
            checkpoint |-> <<Impl \o Digest(Word("weights"))>>, search |-> <<>>, demonstration |-> <<>>,
            metadata |-> <<>>]
Heuristic == [Learned EXCEPT !.kind = DeterministicHeuristic, !.rng = NoRng, !.checkpoint = <<>>]
Artifact(v) == Sealed(v, ArtifactId)
League == [generation |-> 2, member |-> Word("m"), role |-> Word("main")]
Assigned ==
    [i \in 1..2 |->
        Sealed([player |-> i - 1, seat |-> i - 1, deckRole |-> i - 1, deck |-> Word("deck_a"),
                deckSha256 |-> Digest(Word("a")), role |-> 1, artifact |-> Artifact(Heuristic).id,
                epoch |-> 0, from |-> 0, league |-> IF i = 1 THEN <<>> ELSE <<League>>],
               AssignmentId)]
Ours == Assigned[1]
Material(m) ==
    [rng |-> Impl, stream |-> Word("stream"), material |-> U(1, m)]
Initialized == Sealed(Material(4), InitializationId)
NoInitialization == [rng |-> NoRng, stream |-> NoRng, material |-> <<>>, id |-> NoRng]
Stream == Sealed([artifact |-> Artifact(Learned).id, assignment |-> Ours.id, rng |-> Impl,
                  stream |-> Word("stream"), initialization |-> Initialized.id], StreamId)
Rng(index, moved) ==
    [index |-> index, assignment |-> Ours.id, moved |-> moved] @@
    IF moved.code = NoStream
    THEN [rng |-> NoRng, contract |-> NoRng, stream |-> NoRng, initialization |-> NoRng]
    ELSE [rng |-> Stream.id, contract |-> Impl, stream |-> Word("stream"),
          initialization |-> Initialized.id]
Moves == {[code |-> NoStream], [code |-> CursorMode, pre |-> 1, post |-> 9],
          [code |-> StateMode, before |-> U(1, 1), after |-> U(1, 2)]}
Dispositions == {[code |-> Clean], [code |-> Quarantined, rejections |-> <<Word("unknown_key")>>]}
Known == [artifacts |-> <<Artifact(Heuristic)>>, assignments |-> Assigned]

TextOrder == Field(Assigned, LAMBDA a : a.id) \o <<Word("l1"), Word("l2")>>
Place(order, text) ==
    IF text \in Range(order) THEN CHOOSE i \in DOMAIN order : order[i] = text ELSE 0
MCBefore(a, b) == \E order \in {TextOrder} : Place(order, a) < Place(order, b)

Look(player, index, references) ==
    [perspective |-> player, index |-> index, state |-> SafeState(player, "field"),
     kind |-> <<Word("idle_command")>>, player |-> <<0>>, references |-> references]

(* Candidates and requests. *)
Bare == [kind |-> Word("option"), choice |-> <<>>, source |-> <<>>, target |-> <<>>, phase |-> <<>>,
         position |-> <<>>, index |-> <<>>, amount |-> <<>>, operation |-> <<>>, submits |-> TRUE]
Keyed(n, c) ==
    LET d == IF n = 2 THEN c ELSE [f \in DOMAIN c \ {"selection"} |-> c[f]]
    IN  d @@ ("key" :> Key(n, d))
Attack == Bare @@ ("selection" :> NoSelection)
Choosing == [Attack EXCEPT !.choice = <<[kind |-> OptionValue, value |-> 17, response |-> <<1>>]>>,
                           !.source = <<[kind |-> 1, locator |-> Word("l1")]>>]
Taking == [Attack EXCEPT !.kind = Word("card_selection"), !.selection = 1, !.position = <<3>>]
Dropping == [Taking EXCEPT !.selection = 2]
Op(kind, operation, submits) ==
    [Attack EXCEPT !.kind = Word(kind), !.operation = Word(operation), !.submits = submits]
At(c, i) == [c EXCEPT !.index = <<i>>]
Picking(i) == At(Op("pick", "pick", FALSE), i)
Assigning(i, a) == [At(Op("assign_amount", "amount", FALSE), i) EXCEPT !.amount = <<a>>]
Finishing == Op("finish", "finish", TRUE)

View(kind, selected, remaining, min, max, finish) ==
    [kind |-> Word(kind), step |-> Len(selected), selected |-> selected, remaining |-> remaining,
     amounts |-> <<>>, min |-> min, max |-> max, target |-> 0, required |-> 0, available |-> 0,
     mask |-> 0, steps |-> Len(selected), exact |-> TRUE, greater |-> FALSE, finish |-> finish,
     cancel |-> FALSE]
Masked == [View("announce_mask", <<1>>, <<0>>, 2, 2, FALSE) EXCEPT !.available = 3, !.mask = 2]
Counting == [View("counter", <<>>, <<1>>, 0, 0, FALSE) EXCEPT !.amounts = <<2>>, !.required = 3]
Summing == [View("sum", <<0, 2>>, <<1>>, 2, 0, TRUE) EXCEPT !.exact = FALSE, !.greater = TRUE]
Ordering == View("ordering", <<1>>, <<0, 2>>, 3, 3, FALSE)

Ask(n, kind, candidates, view) ==
    [kind |-> Word(kind), player |-> 0, candidates |-> Field(candidates, LAMBDA c : Keyed(n, c)),
     continuation |-> view]
Requests(n) ==
    {Ask(n, "unselect_card", (IF n = 2 THEN <<Taking, Dropping>> ELSE <<>>) \o <<Attack>>, <<>>),
     Ask(n, "ordering", <<Picking(0), Picking(2), Op("cancel", "bypass", TRUE)>>, <<Ordering>>),
     Ask(n, "counter", <<Assigning(1, 0), Assigning(1, 1)>>, <<Counting>>),
     Ask(n, "announcement", <<Picking(0)>>, <<Masked>>),
     Ask(n, "sum", <<Picking(1), Finishing>>, <<Summing>>)}

(* Frames, records and an episode of at most two decisions. *)
Episode(n) == Digest(EpisodeBytes(n, CertifiedConfig(n), Spec0))
Bound(n, f) ==
    f @@ ("decision" :> DecisionId(n, f.episode, f.index, 0, f.request.kind, f.seen, f.domain))
Frame(n, index, request, look) ==
    Bound(n, [contract |-> Environment(n), episode |-> Episode(n), index |-> index, player |-> 0,
              observation |-> look, seen |-> ObservationDigest(look), request |-> request,
              domain |-> Domain(n, request)])
Frames(n) ==
    [i \in 1..2 |->
        Frame(n, i - 1,
              IF i = 2 THEN Ask(n, "option", <<Choosing>>, <<>>)
              ELSE Ask(n, "ordering", <<Picking(0), Op("cancel", "bypass", TRUE)>>,
                       <<View("ordering", <<>>, <<0>>, 1, 1, FALSE)>>),
              Look(0, i - 1, <<Word("l2"), Word("l1")>>))]
Chosen(frame, class, successor) ==
    [record |-> [frame |-> frame, selected |-> frame.request.candidates[1].key, class |-> class,
                 successor |-> successor],
     assignment |-> Ours.id,
     rng |-> Rng(frame.index, [code |-> CursorMode, pre |-> 1, post |-> 2])]
To(target, frame) ==
    [code |-> NextFrame, target |-> target, index |-> frame.index, decision |-> frame.decision]
End(code) == [code |-> code]

Viewed(v0, v1) ==
    [view0 |-> v0, seen0 |-> ObservationDigest(v0), view1 |-> v1, seen1 |-> ObservationDigest(v1)]
Win(count) ==
    [code |-> Terminal, winner |-> 1, reason |-> 2, count |-> count,
     last |-> IF count = 0 THEN <<>> ELSE <<count - 1>>]
    @@ Viewed(Look(0, count, <<>>), Look(1, count, <<Word("l1")>>))
Stop(pending, count) == [code |-> Interrupted, count |-> count, pending |-> pending]
Break(count) == [code |-> Failed, failure |-> 2, stage |-> 3, mutated |-> TRUE, count |-> count]

Manifest(n, environment, episode) ==
    [contract |-> Environment(n), environment |-> Digest(environment),
     environmentInput |-> environment, schema |-> EpisodeSchema, episode |-> Digest(episode),
     episodeInput |-> episode, provenance |-> Known]

(* An episode that was won, one that was interrupted, one that failed.      *)
Plays(frames) ==
    {[code |-> Clean, records |-> <<Chosen(frames[1], Intermediate, To(NextRecord, frames[2])),
                                    Chosen(frames[2], Atomic, End(TerminalEnd))>>,
      closure |-> Win(2)],
     [code |-> Clean, records |-> <<Chosen(frames[1], Intermediate, To(PendingFrame, frames[2]))>>,
      closure |-> Stop(<<frames[2]>>, 1)],
     [code |-> Quarantined, records |-> <<>>, closure |-> Break(0)]}
Envelope(manifest, play) ==
    [manifest |-> manifest @@ [disposition |-> CHOOSE d \in Dispositions : d.code = play.code],
     records |-> play.records, closure |-> play.closure]
Envelopes(n) ==
    {Envelope(Manifest(n, EnvironmentBytes(n, CertifiedConfig(n)),
                       EpisodeBytes(n, CertifiedConfig(n), Spec0)), play) : play \in Plays(Frames(n))}

(* A safe state, its lists in no order. *)
S == INSTANCE SafeState WITH Before <- MCBefore
SafeReader == INSTANCE Wire WITH Layout <- S!StateLayout, Valid <- S!StateRead

Seen(kind, index) ==
    [index |-> index, kind |-> kind, player |-> <<1>>, entity |-> <<Word("l1")>>, code |-> <<>>,
     from |-> <<6>>, to |-> <<2>>, count |-> <<>>, amount |-> <<0 - 3>>, counter |-> <<>>,
     phase |-> <<>>, winner |-> <<1>>, reason |-> <<>>, description |-> <<9>>, targets |-> <<>>]
SafeCard(locator, known) ==
    [locator |-> locator, known |-> known, code |-> IF known THEN <<7>> ELSE <<>>, owner |-> <<1>>,
     controller |-> <<0>>, zone |-> 3, sequence |-> <<2>>, overlay |-> <<>>, position |-> 4,
     up |-> TRUE, down |-> FALSE,
     printed |-> IF known THEN <<[before |-> <<5>>, markers |-> <<6, 2>>, after |-> <<>>,
                                  counters |-> <<[type |-> 2, count |-> 1]>>]>> ELSE <<>>,
     current |-> <<>>]
SafeZone(kind) ==
    [player |-> 1, kind |-> kind, total |-> 3, public |-> 1, hidden |-> 2, order |-> TRUE]
View0 ==
    [globals |-> [flags |-> 2, life |-> <<8, 7>>, toAct |-> <<1>>, turnPlayer |-> <<>>,
                  turns |-> <<2>>, phase |-> <<4>>, chain |-> 1, winner |-> <<>>, reason |-> <<>>,
                  terminal |-> FALSE],
     zones |-> <<SafeZone(4), SafeZone(2)>>,
     entities |-> <<SafeCard(Word("l2"), FALSE), SafeCard(Word("l1"), TRUE)>>,
     relationships |-> <<[kind |-> 1, source |-> Word("l2"), target |-> Word("l1")],
                         [kind |-> 0, source |-> Word("l1"), target |-> Word("l2")]>>,
     length |-> 1,
     chain |-> <<[index |-> 0, player |-> <<0>>, source |-> <<Word("l1")>>, zone |-> <<5>>,
                  description |-> <<3>>, targets |-> <<Word("l2"), Word("l1")>>]>>,
     events |-> <<Seen(7, 3), Seen(5, 1)>>, perspective |-> 0, flags |-> 2, ownKnown |-> TRUE,
     opponentKnown |-> FALSE, own |-> [known |-> TRUE, main |-> <<5, 2>>, extra |-> <<>>],
     opponent |-> [known |-> FALSE, main |-> <<>>, extra |-> <<>>]]
SettleState(v) ==
    [v EXCEPT !.zones = SortSeq(@, S!ZoneBefore), !.entities = <<[v.entities[2] EXCEPT
                    !.printed[1].markers = SortSeq(@, <)], v.entities[1]>>,
              !.relationships = SortSeq(@, S!RelationBefore), !.events = SortSeq(@, S!EventBefore),
              !.chain[1].targets = Sorted(@), !.own.main = SortSeq(@, <)]

Wrote(n, v) == IF n[1] = "safe_state" THEN S!StateBytes(v) ELSE Canonical(n, v)
Parsed(n, bytes) ==
    IF n[1] = "safe_state" THEN SafeReader!Accepted("state", bytes) ELSE T!Accepted(n, bytes)

Samples ==
    ({"safe_state"} \X {0}) \X {View0}
    \cup ({"observation"} \X {0}) \X {Look(1, 3, <<Word("l2"), Word("l1")>>)}
    \cup ({"artifact"} \X {0}) \X {Artifact(Learned), Artifact(Heuristic)}
    \cup ({"assignment"} \X {0}) \X Range(Assigned)
    \cup ({"initialization"} \X {0}) \X {Initialized, NoInitialization}
    \cup ({"stream"} \X {0}) \X {Stream}
    \cup ({"rng"} \X {0}) \X {Rng(7, m) : m \in Moves}
    \cup ({"disposition"} \X {0}) \X Dispositions
    \cup UNION {({"request"} \X {n}) \X Requests(n) : n \in {1, 2}}
    \cup UNION {({"closure"} \X {n}) \X {Win(0), Break(2)} : n \in {1, 2}}
    \cup UNION {({"envelope"} \X {n}) \X Envelopes(n) : n \in {1, 2}}
    \cup UNION {({"evidence"} \X {n}) \X
                {[contract |-> Environment(n), episode |-> Digest(Word("e")), closure |-> Interrupted,
                  reason |-> 0, processBudget |-> 9, actionBudget |-> 4, processes |-> 9,
                  actions |-> 3, step |-> 8]} : n \in {1, 2}}

(* How far a sample has come, what was written of it, whether that was      *)
(* altered, and the value in hand: the sample, and later what was read.     *)
VARIABLES stage, name, value, held, wire, tampered
vars == <<stage, name, value, held, wire, tampered>>

Init ==
    /\ \E sample \in Samples : name = sample[1] /\ value = sample[2]
    /\ stage = "sampled" /\ held = value /\ wire = Refused /\ tampered = FALSE

(* A decoder ends by writing what it has read and comparing.                *)
Write ==
    /\ stage \in {"sampled", "read"}
    /\ \E bytes \in {Wrote(name, held)} :
          \/ stage = "sampled" /\ wire' = bytes /\ stage' = "written"
          \/ /\ stage = "read" /\ UNCHANGED wire
             /\ stage' = IF bytes = wire THEN "decoded" ELSE "not canonical"
    /\ UNCHANGED <<name, value, held, tampered>>

Read ==
    /\ stage = "written"
    /\ \E got \in {Parsed(name, wire)} :
          IF got.ok THEN stage' = "read" /\ held' = got.value
          ELSE stage' = "refused" /\ UNCHANGED held
    /\ UNCHANGED <<name, value, wire, tampered>>

Others(cell) ==
    IF IsByte(cell) THEN {Byte((cell[1] + b) % Base) : b \in IF name[1] = "envelope" THEN {1} ELSE {1, Base - 1}}
    ELSE IF IsWord(cell) THEN {<<"word", cell[2], 3 - cell[3]>>}
    ELSE IF IsHex(cell) THEN {<<"hex", <<5>>>>} \ {cell}
    ELSE {Digest(Word("other"))[1]}

Change == \E i \in DOMAIN wire : \E cell \in Others(wire[i]) : wire' = [wire EXCEPT ![i] = cell]
Lose == \E i \in DOMAIN wire : wire' = RemoveAt(wire, i)
Double == \E i \in DOMAIN wire : wire' = InsertAt(wire, i, wire[i])
Extend == \E b \in {0, 1} : wire' = wire \o U(1, b)

(* An envelope, the longest of all, only has cells changed. *)
Tamper ==
    /\ stage = "written" /\ ~tampered /\ tampered' = TRUE
    /\ UNCHANGED <<stage, name, value, held>>
    /\ \/ Change
       \/ name[1] # "envelope" /\ (Lose \/ Double \/ Extend)

Next == Write \/ Tamper \/ Read

Spec == Init /\ [][Next]_vars

----------------------------------------------------------------------------
(* References are written in order, whatever order they are held in. *)
Settle(look) == [look EXCEPT !.references = Sorted(look.references)]
SettleFrame(f) == [f EXCEPT !.observation = Settle(f.observation)]
SettleClosure(c) ==
    CASE c.code = Terminal -> [c EXCEPT !.view0 = Settle(c.view0), !.view1 = Settle(c.view1)]
      [] c.code = Interrupted -> [c EXCEPT !.pending = Field(c.pending, SettleFrame)]
      [] c.code = Failed -> c
SettleRecord(r) == [r EXCEPT !.record.frame = SettleFrame(r.record.frame)]
Settled ==
    CASE name[1] = "safe_state" -> SettleState(value)
      [] name[1] = "observation" -> Settle(value)
      [] name[1] = "closure" -> SettleClosure(value)
      [] name[1] = "envelope" ->
            [value EXCEPT !.records = Field(value.records, SettleRecord),
                          !.closure = SettleClosure(value.closure)]
      [] OTHER -> value

(* Everything the program writes, its decoder reads, and gives back the     *)
(* value that was written, sorted: the writers, the validators and the      *)
(* readers of codec.cpp and of the safe state are separate functions that   *)
(* have to agree on every field.                                            *)
RoundTrip ==
    ~tampered => /\ stage # "sampled" => wire # Refused
                 /\ stage \notin {"refused", "not canonical"}
                 /\ stage = "decoded" => held = Settled

(* The readers are as strict as the writers: what a reader accepts and its  *)
(* validator passes is already canonical, so that no second byte string     *)
(* stands for the same value.  Nested messages are read without the         *)
(* comparison that the outermost decoder ends with.                         *)
ReadersAreStrict == stage # "not canonical"

(* An episode that was altered and is still a legal episode is another      *)
(* record: whatever is in the envelope and not in its identities could be   *)
(* exchanged without anyone noticing.  What all may see of it changes its   *)
(* public identity, and nothing else does.                                  *)
Public(e) == [e EXCEPT !.manifest.provenance = 0, !.manifest.disposition = 0,
                       !.records = Field(e.records, LAMBDA r : r.record)]
Ids(n, e) == [record |-> RecordId(n, e), play |-> GameplayId(n, e), public |-> Public(e)]
Apart(a, b) ==
    /\ a.record # Refused => b.record # a.record
    /\ a.play # Refused => ((b.play = a.play) <=> (b.public = a.public))
IdentitiesCoverTheEpisode ==
    (name[1] = "envelope" /\ tampered /\ stage = "decoded") =>
        \A settled \in {Settled} :
            held # settled => Apart(Ids(name[2], settled), Ids(name[2], held))

============================================================================
