------------------------------ MODULE ModelInput ------------------------------
(***************************************************************************)
(* The input of a model, made of a public observation and its candidates:   *)
(* the logical projection (logical_model_input.cpp), where every locator    *)
(* has its rank among all that occur, and its encoding in numbers           *)
(* (encoded_model_input.cpp), where every public passcode has its rank in   *)
(* the vocabulary (card_vocabulary.cpp).  A numeric feature is kept as it   *)
(* is: zones, positions, markers and kinds are codes in SafeState already.  *)
(* Last, the supervision sample that points at the row of the action        *)
(* that was selected (model_supervision_sample.cpp).                        *)
(***************************************************************************)
EXTENDS PublicAction

CONSTANTS Before(_, _),  \* the order of texts
          Vocabulary     \* the passcodes of the vocabulary, strictly ascending

S == INSTANCE SafeState

(* decode_canonical_public_safe_state: and written again it is the same.    *)
Reader == INSTANCE Wire WITH Layout <- S!StateLayout, Valid <- S!StateRead
Rewritten(got, bytes) == [got EXCEPT !.ok = @ /\ S!PutState(got.value) = bytes]
DecodedState(bytes) == Rewritten(Reader!Accepted("state", bytes), bytes)

NoInput == [ok |-> FALSE]
Input(value) == [ok |-> TRUE, value |-> value]

RequestKinds ==
    <<"idle_command", "battle_command", "chain", "option", "card_selection", "tribute", "sum",
      "place", "counter", "ordering", "announcement", "unselect_card", "position", "yes_no">>
ActionKindNames ==
    <<"idle_command", "battle_command", "chain", "option", "card_selection", "announcement",
      "place", "position", "yes_no", "pick", "finish", "cancel", "assign_amount">>
Operations == <<"pick", "amount", "finish", "cancel", "bypass">>

Words(names) == {Word(names[i]) : i \in DOMAIN names}
NumberOf(names, text) == CHOOSE i \in DOMAIN names : Word(names[i]) = text

All(items, Of(_)) == [i \in DOMAIN items |-> Of(items[i])]

PlaceOf(s, x) == (CHOOSE i \in DOMAIN s : s[i] = x) - 1

----------------------------------------------------------------------------
(* make_locator_table: what is referred to, sorted, each once.              *)
ReferencesOf(c) == (IF c.source = <<>> THEN <<>> ELSE <<c.source[1].locator>>)
                   \o (IF c.target = <<>> THEN <<>> ELSE <<c.target[1].locator>>)

SortedOnce(texts) ==
    FoldLeft(LAMBDA s, x : IF s # <<>> /\ s[Len(s)] = x THEN s ELSE Append(s, x), <<>>,
             SortSeq(texts, Before))

LocatorTable(o, v, candidates) ==
    LET all(items, Of(_)) == FlattenSeq([i \in DOMAIN items |-> Of(items[i])])
    IN  SortedOnce(o.references \o all(v.entities, LAMBDA e : <<e.locator>>)
                   \o all(v.relationships, LAMBDA r : <<r.source, r.target>>)
                   \o all(v.chain, LAMBDA l : l.source \o l.targets)
                   \o all(v.events, LAMBDA e : e.entity \o e.targets)
                   \o all(candidates, ReferencesOf))

(* make_public_locator, make_historical_reference *)
Located(table, l) == [locator |-> l, at |-> PlaceOf(table, l)]

(* make_current_reference: the locator may be an entity's of now.           *)
CurrentReference(table, entities, l) ==
    Located(table, l) @@
    [entity |-> SelectSeq([i \in DOMAIN entities |-> i - 1],
                          LAMBDA i : entities[i + 1].locator = l)]

(* copy_context *)
ContextReferences(table, o) == All(SortSeq(o.references, Before), LAMBDA l : Located(table, l))

(* copy_public_state *)
LogicalState(table, v) ==
    LET now(l) == CurrentReference(table, v.entities, l)
        was(l) == Located(table, l)
    IN  [v EXCEPT
           !.entities = [i \in DOMAIN @ |-> @[i] @@ [at |-> PlaceOf(table, @[i].locator),
                                                     place |-> i - 1]],
           !.relationships = All(@, LAMBDA r : [r EXCEPT !.source = now(@), !.target = now(@)]),
           !.chain = All(@, LAMBDA l : [l EXCEPT !.source = All(@, now), !.targets = All(@, now)]),
           !.events = All(@, LAMBDA e : [e EXCEPT !.entity = All(@, was), !.targets = All(@, was)])]

(* copy_candidates: the features of a candidate, without its key.           *)
LogicalCandidate(table, v, c) ==
    LET card(r) == r @@ CurrentReference(table, v.entities, r.locator)
    IN  [f \in DOMAIN c \ {"key"} |-> IF f \in {"source", "target"} THEN All(c[f], card) ELSE c[f]]

----------------------------------------------------------------------------
(* validate_candidate: a known kind and operation, and the key it has.      *)
ValidCandidate(c) ==
    /\ IsActionKey(1, c.key) /\ c.kind \in Words(ActionKindNames)
    /\ c.operation = <<>> \/ c.operation \in Words(Operations)
    /\ Keyable(1, c) /\ Key(1, c) = c.key

Distinct(s) == \A i, j \in DOMAIN s : s[i] = s[j] => i = j

KeysOf(candidates) == [i \in DOMAIN candidates |-> candidates[i].key]

(* What the projection takes of an observation o, whose state is bytes, of  *)
(* which the decoder made state.                                            *)
Projectable(o, state, candidates) ==
    /\ candidates # <<>> /\ \A i \in DOMAIN candidates : ValidCandidate(candidates[i])
    /\ Distinct(KeysOf(candidates)) /\ Distinct(o.references)
    /\ \A i \in DOMAIN o.references : S!IsLocator(o.references[i])
    /\ state.ok /\ state.value.perspective = o.perspective

DomainOf(kind, keys) == IF kind = <<>> THEN <<>> ELSE DomainDigest(1, kind[1], keys)

Logical(o, v, table, candidates) ==
    [seen |-> Digest(o), perspective |-> o.perspective, index |-> o.index, kind |-> o.kind,
     player |-> o.player, table |-> table, references |-> ContextReferences(table, o),
     state |-> LogicalState(table, v),
     candidates |-> All(candidates, LAMBDA c : LogicalCandidate(table, v, c)),
     keys |-> KeysOf(candidates), domain |-> DomainOf(o.kind, KeysOf(candidates))]

(* project_logical_model_input_v1 *)
ProjectedWith(o, state, candidates) ==
    IF ~Projectable(o, state, candidates) THEN NoInput
    ELSE Input(Logical(o, state.value, LocatorTable(o, state.value, candidates), candidates))
Projected(o, candidates) == ProjectedWith(o, DecodedState(o.state), candidates)

----------------------------------------------------------------------------
(* validate_logical, written apart from what makes a logical input.         *)
ValidLocated(l, r) == r.at < Len(l.table) /\ l.table[r.at + 1] = r.locator

ValidCurrent(l, r) ==
    /\ ValidLocated(l, r) /\ Len(r.entity) <= 1
    /\ \A e \in ToSet(r.entity) :
          e < Len(l.state.entities) /\ l.state.entities[e + 1].locator = r.locator

LocatorLess(a, b) == Before(a.locator, b.locator)
TupleOfRelation(r) == [kind |-> r.kind, source |-> r.source.locator, target |-> r.target.locator]
RelationLess(a, b) == S!RelationBefore(TupleOfRelation(a), TupleOfRelation(b))

(* validate_logical_card, with validate_properties *)
ValidLogicalCard(l, i) ==
    LET c == l.state.entities[i]
        ordered(p) == S!InOrder(p.markers, S!Less) /\ S!InOrder(p.counters, S!CounterBefore)
    IN  /\ S!ValidCard(c) /\ ValidLocated(l, c) /\ c.place = i - 1
        /\ \A p \in ToSet(c.printed) \cup ToSet(c.current) : ordered(p)

ValidLogicalState(l) ==
    LET s == l.state
    IN  /\ S!MaybePlayer(s.globals.toAct) /\ S!MaybePlayer(s.globals.turnPlayer)
        /\ \A i \in DOMAIN s.zones : s.zones[i].player <= 1
        /\ S!InOrder(s.zones, S!ZoneBefore)
        /\ \A i \in DOMAIN s.entities : ValidLogicalCard(l, i)
        /\ S!InStrictOrder(s.entities, LocatorLess)
        /\ \A r \in ToSet(s.relationships) : ValidCurrent(l, r.source) /\ ValidCurrent(l, r.target)
        /\ S!InOrder(s.relationships, RelationLess)
        /\ \A link \in ToSet(s.chain) :
              /\ S!MaybePlayer(link.player) /\ S!InOrder(link.targets, LocatorLess)
              /\ \A r \in ToSet(link.source \o link.targets) : ValidCurrent(l, r)
        /\ \A event \in ToSet(s.events) :
              /\ S!MaybePlayer(event.player) /\ S!InOrder(event.targets, LocatorLess)
              /\ \A r \in ToSet(event.entity \o event.targets) : ValidLocated(l, r)
        /\ S!InStrictOrder(s.events, S!EventBefore)
        /\ s.perspective = l.perspective
        /\ \A deck \in {s.own, s.opponent} :
              /\ S!ValidDeck(deck)
              /\ S!InOrder(deck.main, S!Less) /\ S!InOrder(deck.extra, S!Less)

ValidLogicalCandidate(l, c, key) ==
    /\ ValidCandidate(c @@ ("key" :> key))
    /\ \A r \in ToSet(c.source) \cup ToSet(c.target) : ValidCurrent(l, r)

ValidLogical(l) ==
    /\ l.perspective <= 1 /\ S!MaybePlayer(l.player)
    /\ l.kind # <<>> => l.kind[1] \in Words(RequestKinds)
    /\ S!InStrictOrder(l.table, Before) /\ \A i \in DOMAIN l.table : S!IsLocator(l.table[i])
    /\ \A i \in DOMAIN l.references : ValidLocated(l, l.references[i])
    /\ S!InStrictOrder(l.references, LocatorLess)
    /\ ValidLogicalState(l)
    /\ l.candidates # <<>> /\ Len(l.candidates) = Len(l.keys) /\ Distinct(l.keys)
    /\ \A i \in DOMAIN l.candidates : ValidLogicalCandidate(l, l.candidates[i], l.keys[i])
    /\ l.domain = DomainOf(l.kind, l.keys)

----------------------------------------------------------------------------
(* The vocabulary: 0 is padding, 1 is unknown or redacted.                  *)
Redacted == 1

(* from_ascending_passcodes *)
ASSUME VocabularyAssumption ==
    /\ \A i \in DOMAIN Vocabulary : Vocabulary[i] > 0
    /\ \A i \in 2..Len(Vocabulary) : Vocabulary[i - 1] < Vocabulary[i]

InVocabulary(code) == \E i \in DOMAIN Vocabulary : Vocabulary[i] = code

(* id_for_public_passcode *)
VocabularyId(code) == PlaceOf(Vocabulary, code) + 2

VocabularyIdentity ==
    Identity(Versioned("card_vocabulary", 1), List(Vocabulary, LAMBDA code : U(4, code)))

----------------------------------------------------------------------------
(* encode_unchecked: what has no id cannot be encoded.                      *)
PasscodesOf(v) ==
    UNION {ToSet(v.entities[i].code) : i \in DOMAIN v.entities}
    \cup UNION {ToSet(v.events[i].code) : i \in DOMAIN v.events}
    \cup UNION {ToSet(deck.main) \cup ToSet(deck.extra) : deck \in {v.own, v.opponent}}

Encodable(v) ==
    /\ \A i \in DOMAIN v.entities : v.entities[i].known => v.entities[i].code # <<>>
    /\ \A code \in PasscodesOf(v) : InVocabulary(code)

EncodedReference(r) == [at |-> r.at, entity |-> r.entity]

EncodedEntity(c) ==
    LET kept == {"known", "owner", "controller", "zone", "sequence", "overlay", "position",
                 "up", "down", "printed", "current", "at"}
    IN  [f \in kept |-> c[f]] @@
        [id |-> IF c.known THEN VocabularyId(c.code[1]) ELSE Redacted]

EncodedRelationship(r) ==
    [r EXCEPT !.source = EncodedReference(@), !.target = EncodedReference(@)]

EncodedLink(l) ==
    [l EXCEPT !.source = All(@, EncodedReference), !.targets = All(@, EncodedReference)]

(* Mutant: an event goes from where it goes to. *)
EncodedEventGoingNowhere(e) ==
    [e EXCEPT !.entity = All(@, LAMBDA r : r.at), !.targets = All(@, LAMBDA r : r.at),
              !.code = All(@, VocabularyId), !.from = e.to]

EncodedEvent(e) ==
    [e EXCEPT !.entity = All(@, LAMBDA r : r.at), !.targets = All(@, LAMBDA r : r.at),
              !.code = All(@, VocabularyId)]

EncodedDeck(deck) ==
    [deck EXCEPT !.main = All(@, VocabularyId), !.extra = All(@, VocabularyId)]

EncodedCandidate(c) ==
    LET card(r) == [kind |-> r.kind] @@ EncodedReference(r)
    IN  [c EXCEPT !.kind = NumberOf(ActionKindNames, @), !.source = All(@, card),
                  !.target = All(@, card),
                  !.operation = IF @ = <<>> THEN 0 ELSE NumberOf(Operations, @)]

(* Lists are fields of their own: a batch lays them out apart.              *)
Encoding(l) ==
    [seen |-> l.seen, vocabulary |-> VocabularyIdentity, perspective |-> l.perspective,
     index |-> l.index, kind |-> All(l.kind, LAMBDA k : NumberOf(RequestKinds, k)),
     player |-> l.player, table |-> l.table, references |-> All(l.references, LAMBDA r : r.at),
     globals |-> [l.state.globals EXCEPT !.life = <<>>], life |-> l.state.globals.life,
     zones |-> l.state.zones, entities |-> All(l.state.entities, EncodedEntity),
     relationships |-> All(l.state.relationships, EncodedRelationship),
     length |-> l.state.length, links |-> All(l.state.chain, EncodedLink),
     events |-> All(l.state.events, EncodedEvent),
     match |-> [f \in {"perspective", "flags", "ownKnown", "opponentKnown"} |-> l.state[f]],
     ownListed |-> l.state.own.known, opponentListed |-> l.state.opponent.known,
     ownMain |-> EncodedDeck(l.state.own).main, ownExtra |-> EncodedDeck(l.state.own).extra,
     opponentMain |-> EncodedDeck(l.state.opponent).main,
     opponentExtra |-> EncodedDeck(l.state.opponent).extra,
     candidates |-> All(l.candidates, EncodedCandidate), keys |-> l.keys, domain |-> l.domain]

----------------------------------------------------------------------------
(* validate_encoded *)
ValidEncodedReference(e, r) ==
    /\ r.at < Len(e.table) /\ Len(r.entity) <= 1
    /\ \A i \in ToSet(r.entity) : i < Len(e.entities) /\ e.entities[i + 1].at = r.at

(* validate_encoded_candidate_routing: the key, from the numbers.           *)
RoutingKey(e, c) ==
    LET card(r) == [kind |-> r.kind, locator |-> e.table[r.at + 1]]
    IN  Key(1, [c EXCEPT !.kind = Word(ActionKindNames[@]), !.source = All(@, card),
                         !.target = All(@, card),
                         !.operation = IF @ = 0 THEN <<>> ELSE Word(Operations[@])])

ValidEncodedCandidate(e, c, key) ==
    /\ c.kind \in DOMAIN ActionKindNames /\ c.operation <= Len(Operations)
    /\ c.choice # <<>> => ValidChoice(c.choice[1])
    /\ \A r \in ToSet(c.source) \cup ToSet(c.target) : r.kind <= 1 /\ ValidEncodedReference(e, r)
    /\ RoutingKey(e, c) = key

ValidEncodedEntity(e, c) ==
    /\ c.at < Len(e.table) /\ IF c.known THEN c.id >= 2 ELSE c.id = Redacted
    /\ c.zone <= S!MostZones /\ c.position \in S!Positions /\ ~(c.up /\ c.down)
    /\ S!MaybePlayer(c.owner) /\ S!MaybePlayer(c.controller)
    /\ ~c.known => c.printed = <<>> /\ c.current = <<>>
    /\ \A p \in ToSet(c.printed) \cup ToSet(c.current) :
          /\ S!InOrder(p.markers, S!Less) /\ S!InOrder(p.counters, S!CounterBefore)
          /\ \A m \in ToSet(p.markers) : m <= S!MostMarkers

ValidEncodedEvent(e, event) ==
    /\ event.kind <= S!MostEvents /\ S!MaybePlayer(event.player)
    /\ \A at \in ToSet(event.entity \o event.targets) : at < Len(e.table)
    /\ \A zone \in ToSet(event.from \o event.to) : zone <= S!MostZones
    /\ \A id \in ToSet(event.code) : id >= 2

ValidEncodedDeck(known, deck) ==
    /\ known \/ deck = <<>>
    /\ S!InOrder(deck, S!Less) /\ \A i \in DOMAIN deck : deck[i] >= 2

ValidEncoded(e) ==
    /\ e.perspective <= 1 /\ e.match.perspective = e.perspective /\ S!MaybePlayer(e.player)
    /\ S!InStrictOrder(e.table, Before) /\ \A i \in DOMAIN e.table : S!IsLocator(e.table[i])
    /\ \A k \in ToSet(e.kind) : k \in DOMAIN RequestKinds
    /\ \A at \in ToSet(e.references) : at < Len(e.table)
    /\ \A z \in ToSet(e.zones) : z.player <= 1 /\ z.kind <= S!MostZones
    /\ \A c \in ToSet(e.entities) : ValidEncodedEntity(e, c)
    /\ S!InStrictOrder(e.entities, LAMBDA a, b : Before(e.table[a.at + 1], e.table[b.at + 1]))
    /\ \A r \in ToSet(e.relationships) :
          /\ r.kind <= S!MostRelations
          /\ ValidEncodedReference(e, r.source) /\ ValidEncodedReference(e, r.target)
    /\ \A l \in ToSet(e.links) :
          /\ S!MaybePlayer(l.player) /\ \A zone \in ToSet(l.zone) : zone <= S!MostZones
          /\ \A r \in ToSet(l.source \o l.targets) : ValidEncodedReference(e, r)
    /\ \A event \in ToSet(e.events) : ValidEncodedEvent(e, event)
    /\ S!InStrictOrder(e.events, S!EventBefore)
    /\ \A deck \in {e.ownMain, e.ownExtra} : ValidEncodedDeck(e.ownListed, deck)
    /\ \A deck \in {e.opponentMain, e.opponentExtra} : ValidEncodedDeck(e.opponentListed, deck)
    /\ e.candidates # <<>> /\ Len(e.candidates) = Len(e.keys) /\ Distinct(e.keys)
    /\ \A i \in DOMAIN e.keys :
          IsActionKey(1, e.keys[i]) /\ ValidEncodedCandidate(e, e.candidates[i], e.keys[i])
    /\ e.domain = DomainOf(All(e.kind, LAMBDA k : Word(RequestKinds[k])), e.keys)

(* encode_model_input_v1 *)
Encoded(l) ==
    IF ValidLogical(l) /\ Encodable(l.state) /\ ValidEncoded(Encoding(l)) THEN Input(Encoding(l))
    ELSE NoInput

----------------------------------------------------------------------------
(* The canonical bytes of both forms, and the identity made of them.        *)
(* Written apart, the logical state has the bytes of the safe state.        *)
PlainState(s) ==
    LET plain(r) == r.locator
        ends(r) == [r EXCEPT !.source = plain(@), !.target = plain(@)]
        link(l) == [l EXCEPT !.source = All(@, plain), !.targets = All(@, plain)]
        event(e) == [e EXCEPT !.entity = All(@, plain), !.targets = All(@, plain)]
    IN  [s EXCEPT !.relationships = All(@, ends), !.chain = All(@, link),
                  !.events = All(@, event)]

PutLogicalState(s) == S!PutState(PlainState(s))

PutLogicalCandidate(c, key) == Text(c.kind) \o Text(key) \o Described(c) \o Flag(c.submits)

OptText(given, text) == Flag(given) \o (IF given THEN Text(text) ELSE <<>>)

(* canonical_logical_model_input_bytes *)
LogicalSchema == Versioned("logical_model_input", 1)
EncodedSchema == Versioned("encoded_model_input", 1)

PutLogical(l) ==
    Texts(<<LogicalSchema, LogicalSchema, l.seen>>) \o U(1, l.perspective) \o U(8, l.index)
    \o Opt(l.kind, Text) \o S!OptU(1, l.player) \o List(l.references, LAMBDA r : Text(r.locator))
    \o List(l.table, Text) \o Blob(PutLogicalState(l.state))
    \o U(4, Len(l.candidates))
    \o FlattenSeq([i \in DOMAIN l.keys |-> PutLogicalCandidate(l.candidates[i], l.keys[i])])
    \o OptText(l.kind # <<>>, l.domain)

(* write_encoded *)
PutPlaces(places) == List(places, LAMBDA at : U(4, at))
PutEncodedReference(r) == U(4, r.at) \o S!OptU(4, r.entity)
PutEncodedCard(r) == U(1, r.kind) \o PutEncodedReference(r)

PutEncodedEntity(c) ==
    U(4, c.at) \o Flag(c.known) \o U(4, c.id) \o S!OptU(1, c.owner) \o S!OptU(1, c.controller)
    \o U(1, c.zone) \o S!OptU(4, c.sequence) \o S!OptU(4, c.overlay) \o U(1, c.position)
    \o Flag(c.up) \o Flag(c.down) \o Opt(c.printed, S!PutProperties) \o Opt(c.current, S!PutProperties)

PutEncodedRelationship(r) ==
    U(1, r.kind) \o Flag(TRUE) \o PutEncodedReference(r.source)
    \o Flag(TRUE) \o PutEncodedReference(r.target)

PutEncodedLink(l) ==
    U(4, l.index) \o S!OptU(1, l.player) \o Opt(l.source, PutEncodedReference) \o S!OptU(1, l.zone)
    \o S!OptU(8, l.description)
    \o List(l.targets, LAMBDA r : Flag(TRUE) \o PutEncodedReference(r))

PutEncodedEvent(e) ==
    U(8, e.index) \o U(1, e.kind) \o S!OptU(1, e.player) \o S!OptU(4, e.entity) \o S!OptU(4, e.code)
    \o S!OptU(1, e.from) \o S!OptU(1, e.to) \o S!OptU(4, e.count) \o S!OptU(4, e.amount)
    \o S!OptU(4, e.counter) \o S!OptU(4, e.phase) \o S!OptU(1, e.winner) \o S!OptU(1, e.reason)
    \o S!OptU(8, e.description) \o PutPlaces(e.targets)

PutEncodedCandidate(c) ==
    U(2, c.kind) \o Opt(c.choice, PutChoice) \o Opt(c.source, PutEncodedCard)
    \o Opt(c.target, PutEncodedCard) \o S!OptU(4, c.phase) \o S!OptU(1, c.position)
    \o S!OptU(4, c.index) \o S!OptU(4, c.amount) \o U(1, c.operation) \o Flag(c.submits)

PutEncoded(e) ==
    Texts(<<EncodedSchema, EncodedSchema, LogicalSchema, e.vocabulary, e.seen>>)
    \o U(1, e.perspective) \o U(8, e.index) \o List(e.table, Text) \o S!OptU(2, e.kind)
    \o S!OptU(1, e.player) \o PutPlaces(e.references)
    \o S!PutGlobals([e.globals EXCEPT !.life = e.life]) \o List(e.zones, S!PutZone)
    \o List(e.entities, PutEncodedEntity) \o List(e.relationships, PutEncodedRelationship)
    \o U(4, e.length) \o List(e.links, PutEncodedLink) \o List(e.events, PutEncodedEvent)
    \o U(1, e.match.perspective) \o U(8, e.match.flags) \o Flag(e.match.ownKnown)
    \o Flag(e.match.opponentKnown) \o Flag(e.ownListed) \o PutPlaces(e.ownMain)
    \o PutPlaces(e.ownExtra) \o Flag(e.opponentListed) \o PutPlaces(e.opponentMain)
    \o PutPlaces(e.opponentExtra) \o OptText(e.kind # <<>>, e.domain)
    \o List(e.candidates, PutEncodedCandidate) \o List(e.keys, Text)

(* model_input_identity *)
IdentityDomain == Versioned("model_input_identity", 1)

ModelInputIdentity(l, e) ==
    Identity(Versioned("model_input", 1),
             Texts(<<IdentityDomain, IdentityDomain, LogicalSchema, EncodedSchema, e.vocabulary>>)
             \o Blob(PutLogical(l)) \o Blob(PutEncoded(e)))

----------------------------------------------------------------------------
(* Which of the candidates was selected, if it is one. *)
Chosen(candidates, selected) == {i \in DOMAIN candidates : candidates[i].key = selected}
SelectedRow(candidates, selected) == (CHOOSE i \in Chosen(candidates, selected) : TRUE) - 1
Selectable(candidates, selected) ==
    IsActionKey(1, selected) /\ Cardinality(Chosen(candidates, selected)) = 1

(* Mutant: the model input handed in is believed to be the record's. *)
AnyInput(mine, l, e) == TRUE

(* The logical input and its encoding, written out, are those the record's  *)
(* own frame gives.                                                         *)
SameEncoding(again, e) == again.ok /\ PutEncoded(again.value) = PutEncoded(e)
OwnInput(mine, l, e) ==
    /\ mine.ok /\ PutLogical(mine.value) = PutLogical(l)
    /\ SameEncoding(Encoded(mine.value), e)

(* materialize_record_v1: of the record of an admitted decision and the     *)
(* model input said to be its own, the row of what was selected.            *)
Supervision(o, candidates, selected, l, e) ==
    IF ~Selectable(candidates, selected) \/ ~OwnInput(Projected(o, candidates), l, e) THEN NoInput
    ELSE Input([input |-> ModelInputIdentity(l, e), selected |-> selected,
                row |-> SelectedRow(candidates, selected)])

============================================================================
