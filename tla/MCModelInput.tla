----------------------------- MODULE MCModelInput -----------------------------
(* Public frames, each one feature away from another, are projected and     *)
(* encoded; some are laid out in batches, padded to several widths, and     *)
(* unpadded again after one cell of the padded batch was changed.           *)
EXTENDS ModelInput, ModelBatch

MCVocabulary == <<2, 5, 7>>

TextOrder == <<<<>>, Word("l1"), Word("l2"), Word("l3"), Word("l4")>>
MCBefore(a, b) ==
    (CHOOSE i \in DOMAIN TextOrder : TextOrder[i] = a)
        < (CHOOSE i \in DOMAIN TextOrder : TextOrder[i] = b)

(* Printed properties, a card, an event, a chain link and a whole state.    *)
Printed == [before |-> <<5>>, markers |-> <<2, 6>>, after |-> <<>>,
            counters |-> <<[type |-> 2, count |-> 1]>>]
Known(locator) ==
    [locator |-> locator, known |-> TRUE, code |-> <<7>>, owner |-> <<1>>, controller |-> <<0>>,
     zone |-> 3, sequence |-> <<2>>, overlay |-> <<>>, position |-> 4, up |-> TRUE,
     down |-> FALSE, printed |-> <<Printed>>, current |-> <<>>]
Hidden(locator) ==
    [Known(locator) EXCEPT !.known = FALSE, !.code = <<>>, !.printed = <<>>, !.position = 8,
                              !.up = FALSE, !.down = TRUE]
Past(index) ==
    [index |-> index, kind |-> 3, player |-> <<1>>, entity |-> <<Word("l3")>>, code |-> <<5>>,
     from |-> <<6>>, to |-> <<2>>, count |-> <<>>, amount |-> <<>>, counter |-> <<>>, phase |-> <<>>,
     winner |-> <<>>, reason |-> <<>>, description |-> <<9>>, targets |-> <<Word("l1")>>]
Activated ==
    [index |-> 0, player |-> <<0>>, source |-> <<Word("l1")>>, zone |-> <<5>>, description |-> <<3>>,
     targets |-> <<Word("l2")>>]
View ==
    [globals |-> [flags |-> 2, life |-> <<8, 7>>, toAct |-> <<1>>, turnPlayer |-> <<0>>,
                  turns |-> <<2>>, phase |-> <<4>>, chain |-> 1, winner |-> <<>>, reason |-> <<>>,
                  terminal |-> FALSE],
     zones |-> <<[player |-> 1, kind |-> 2, total |-> 3, public |-> 1, hidden |-> 2, order |-> TRUE]>>,
     entities |-> <<Hidden(Word("l2")), Known(Word("l1"))>>,
     relationships |-> <<[kind |-> 1, source |-> Word("l2"), target |-> Word("l1")]>>,
     length |-> 1, chain |-> <<Activated>>, events |-> <<Past(5), Past(6)>>, perspective |-> 0,
     flags |-> 2, ownKnown |-> TRUE, opponentKnown |-> FALSE,
     own |-> [known |-> TRUE, main |-> <<5, 2>>, extra |-> <<7>>],
     opponent |-> [known |-> FALSE, main |-> <<>>, extra |-> <<>>]]

(* Views that differ from it in one way each, and an empty one. *)
Empty ==
    [View EXCEPT !.entities = <<>>, !.zones = <<>>, !.relationships = <<>>, !.chain = <<>>,
                 !.events = <<>>, !.own.main = <<>>, !.own.extra = <<>>, !.globals.life = <<>>]
Views ==
    {View, Empty,
     [View EXCEPT !.globals.life = <<8>>], [View EXCEPT !.globals.winner = <<0>>],
     [View EXCEPT !.globals.phase = <<>>], [View EXCEPT !.zones[1].hidden = 1],
     [View EXCEPT !.entities[1].owner = <<>>], [View EXCEPT !.entities[1].sequence = <<>>],
     [View EXCEPT !.entities[1].overlay = <<2>>], [View EXCEPT !.entities[1] = Known(Word("l2"))],
     [View EXCEPT !.entities[2].code = <<5>>], [View EXCEPT !.entities[2].position = 1],
     [View EXCEPT !.entities[2].up = FALSE], [View EXCEPT !.entities[1].down = FALSE],
     [View EXCEPT !.entities[2].printed[1].markers = <<2>>],
     [View EXCEPT !.entities[2].current = <<Printed>>],
     [View EXCEPT !.entities = <<@[2]>>], [View EXCEPT !.entities[1].locator = Word("l4")],
     [View EXCEPT !.relationships[1].kind = 2], [View EXCEPT !.relationships[1].target = Word("l2")],
     [View EXCEPT !.relationships = Append(@, [@[1] EXCEPT !.kind = 0])],
     [View EXCEPT !.chain[1].source = <<>>], [View EXCEPT !.chain[1].zone = <<3>>],
     [View EXCEPT !.chain[1].description = <<4>>], [View EXCEPT !.chain[1].targets = <<>>],
     [View EXCEPT !.events[1].index = 4], [View EXCEPT !.events[1].entity = <<>>],
     [View EXCEPT !.events[1].code = <<2>>], [View EXCEPT !.events[1].code = <<>>],
     [View EXCEPT !.events[1].from = <<7>>], [View EXCEPT !.events[1].to = <<3>>],
     [View EXCEPT !.events[1].targets = <<>>], [View EXCEPT !.events[1].amount = <<1>>],
     [View EXCEPT !.events[1].description = <<>>], [View EXCEPT !.events = <<@[1]>>],
     [View EXCEPT !.own.main = <<2>>], [View EXCEPT !.own.main = <<5>>, !.own.extra = <<2, 7>>],
     [View EXCEPT !.entities[2].code = <<3>>], [View EXCEPT !.events[2].code = <<3>>],
     [View EXCEPT !.own.extra = <<3>>]}

(* Candidates. *)
Bare == [kind |-> Word("option"), choice |-> <<>>, source |-> <<>>, target |-> <<>>, phase |-> <<>>,
         position |-> <<>>, index |-> <<>>, amount |-> <<>>, operation |-> <<>>, submits |-> TRUE]
Keyed(c) == c @@ ("key" :> Key(1, c))
Option(value) ==
    [Bare EXCEPT !.choice = <<[kind |-> OptionValue, value |-> value, response |-> <<1>>]>>]
Activate(locator, kind) ==
    [Bare EXCEPT !.kind = Word("chain"), !.source = <<[kind |-> kind, locator |-> locator]>>]
Pick(index) ==
    [Bare EXCEPT !.kind = Word("pick"), !.operation = Word("pick"), !.index = <<index>>,
                 !.submits = FALSE]
Candidates(s) == All(s, Keyed)
CandidateLists ==
    {Candidates(<<Option(3), Option(4)>>), Candidates(<<Option(4)>>),
     Candidates(<<Activate(Word("l1"), 0), Activate(Word("l4"), 1)>>),
     Candidates(<<Activate(Word("l1"), 0), Activate(Word("l2"), 1)>>),
     Candidates(<<Pick(0), Pick(1)>>), Candidates(<<[Bare EXCEPT !.phase = <<2>>, !.position = <<1>>]>>),
     Candidates(<<Option(4), Option(3)>>)}

Frame(view, candidates, references) ==
    [view |-> view, candidates |-> candidates, references |-> references]
Options == Candidates(<<Option(3), Option(4)>>)
MCFrames ==
    {Frame(v, Options, <<Word("l2"), Word("l1")>>) : v \in Views}
    \cup {Frame(View, cs, <<Word("l1")>>) : cs \in CandidateLists}

(* Those that go into batches. *)
MCBatched ==
    {Frame(View, Options, <<Word("l2"), Word("l1")>>),
     Frame(Empty, Options, <<Word("l2"), Word("l1")>>),
     Frame(View, Candidates(<<Option(4)>>), <<Word("l1")>>),
     Frame(View, Candidates(<<Activate(Word("l1"), 0), Activate(Word("l4"), 1)>>), <<Word("l1")>>)}

Observed(f) ==
    [perspective |-> 0, index |-> 3, state |-> S!StateBytes(f.view), kind |-> <<Word("option")>>,
     player |-> <<0>>, references |-> f.references]

(* A frame with the inputs made of it. *)
With(f, l) == [frame |-> f, logical |-> l, encoded |-> IF l.ok THEN Encoded(l.value) ELSE NoInput]
MCMade(f) == With(f, Projected(Observed(f), f.candidates))

Widest == [candidates |-> 2, zones |-> 1, entities |-> 2, relationships |-> 1, links |-> 1,
           events |-> 2, references |-> 2, table |-> 4, life |-> 2, ownMain |-> 2, ownExtra |-> 1,
           opponentMain |-> 0, opponentExtra |-> 0]

(* No width but the candidates', one more than needed of every list, or too few. *)
MCWidths ==
    {[list \in Lists |-> IF list = "candidates" THEN <<2>> ELSE <<>>],
     [list \in Lists |-> <<Widest[list] + 1>>],
     [list \in Lists |-> IF list = "candidates" THEN <<1>> ELSE <<>>]}

----------------------------------------------------------------------------
Features(e) == [f \in DOMAIN e \ {"seen", "domain", "keys"} |-> e[f]]
Alike(a, b) ==
    /\ PutLogicalState(a.logical.value.state) = PutLogicalState(b.logical.value.state)
    /\ a.frame.candidates = b.frame.candidates
    /\ ToSet(a.frame.references) = ToSet(b.frame.references)

(* Every public frame has a model input, unless a passcode is in no         *)
(* vocabulary: whatever the safe state may refer to, of now or of the past, *)
(* has a rank, and the two validators, written apart from the projection    *)
(* and from the encoding, have nothing to object to.  And two frames a      *)
(* player could tell apart have different features: what the model gets,    *)
(* apart from digests and keys, keeps everything of the public state and of *)
(* the candidates in their order.                                           *)
ModelsSeeEverything ==
    padded = <<>> =>
        /\ \A i \in DOMAIN taken :
              taken[i].logical.ok /\ (taken[i].encoded.ok <=> Encodable(taken[i].frame.view))
        /\ Len(taken) = 2 /\ (\A i \in {1, 2} : taken[i].encoded.ok) =>
              (Features(Samples[1]) = Features(Samples[2]) <=> Alike(taken[1], taken[2]))

(* The row a supervision sample points at is, in the padded batch, that of  *)
(* the action that was selected, and of no other; a model input that is not *)
(* of the record's own frame gives no sample.                               *)
KeyRows(j) ==
    LET first == (j - 1) * padded[1].widths.candidates
    IN  [i \in 1..padded[1].widths.candidates |-> padded[1].values.keys[first + i]]
PointsAt(s, j, key) == {i \in DOMAIN KeyRows(j) : KeyRows(j)[i] = key} = {s.value.row + 1}
SupervisedWith(f, key, j) ==
    Supervision(Observed(f), f.candidates, key, taken[j].logical.value, Samples[j])
RowIsTheAction ==
    padded # <<>> /\ ~changed => \A i, j \in DOMAIN taken :
        \A c \in ToSet(taken[i].frame.candidates) :
            \A s \in {SupervisedWith(taken[i].frame, c.key, j)} :
                /\ s.ok <=> Alike(taken[i], taken[j])
                /\ s.ok => PointsAt(s, j, c.key)

============================================================================
