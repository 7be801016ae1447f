------------------------- MODULE PlayerObservation -------------------------
(***************************************************************************)
(* The observation of player me, built from what the engine answers to      *)
(* queries about the whole field (observation_builder.cpp), and the         *)
(* decision attached to it (decision_integration.cpp).                      *)
(*                                                                          *)
(* A field w has, for each player, hand, grave, banished and extra deck as  *)
(* sequences of cards, monsters and spells as slots that hold at most one,  *)
(* a deck of which only the size is queried, life points and a deck list;   *)
(* and a chain.  A card has a code, an owner, lies face up or not, may be   *)
(* shown to all, and may be equipped to, target or hold other cards.        *)
(*                                                                          *)
(* What one player gets to see of the messages of the engine               *)
(* (event_projection.cpp), and the session that collects it.                *)
(*                                                                          *)
(* A place is [controller, location, sequence, up]: the engine's location   *)
(* and whether the card there lies face up.  Optional values are sequences  *)
(* of length at most one.  A locator is a word that names a place.          *)
(***************************************************************************)
EXTENDS WireKinds, FiniteSetsExt

CONSTANTS DuelFlags,     \* of {"pzone", "separate_pzone", "three_columns"}: where pendulum cards go
          KnownDecks,    \* the players whose deck list the observer knows: "own", "opponent"
          Properties(_)  \* what a code stands for: see SafeState

----------------------------------------------------------------------------
(* The n-th of a set of numbers, from the least on; the set in ascending    *)
(* order, and what a sequence has at some of its places.                    *)
Nth(S, n) == CHOOSE k \in S : Cardinality({j \in S : j < k}) = n - 1
Ascending(S) == [n \in 1..Cardinality(S) |-> Nth(S, n)]
Selected(s, places) == [n \in 1..Cardinality(places) |-> s[Nth(places, n)]]

----------------------------------------------------------------------------
(* SemanticZone *)
Unknown == 0
MainDeck == 1
Hand == 2
MonsterZone == 3
SpellTrapZone == 4
Graveyard == 5
Banished == 6
ExtraDeck == 7
FieldZone == 8
PendulumRelevant == 9
Overlay == 10

PendulumSlots ==
    (IF "separate_pzone" \in DuelFlags THEN {6, 7} ELSE {})
    \cup (IF "three_columns" \in DuelFlags THEN {1, 3} ELSE {})
    \cup (IF {"separate_pzone", "three_columns"} \cap DuelFlags = {} THEN {0, 4} ELSE {})

(* project_zone *)
ProjectZone(location, sequence) ==
    CASE location = "deck" -> MainDeck
      [] location = "hand" -> Hand
      [] location = "mzone" -> MonsterZone
      [] location = "szone" ->
            IF sequence = 5 THEN FieldZone
            ELSE IF "pzone" \in DuelFlags /\ sequence \in PendulumSlots THEN PendulumRelevant
            ELSE SpellTrapZone
      [] location = "grave" -> Graveyard
      [] location = "removed" -> Banished
      [] location = "extra" -> ExtraDeck
      [] OTHER -> Unknown        \* a material's place: the location of its host and a bit

ZoneAt(place) == ProjectZone(place.location, place.sequence)

SlotLocator(player, zone, sequence) == Word(<<player, zone, 0, sequence>>)

----------------------------------------------------------------------------
(* VisibleEventKind *)
TurnStarted == 1
PhaseChanged == 2
CardMoved == 3
CardRevealed == 4
Summoned == 5
CardSet == 6
Draw == 7
Shuffle == 8
RandomizationBoundary == 9
LifePointsChanged == 10
ChainActivated == 11
ChainResolved == 12
ChainEnded == 13
CardDestroyed == 14
CardBanished == 15
CardReturned == 16
PositionChanged == 17
CounterChanged == 18
Equipped == 19
Unequipped == 20
Targeted == 21
Win == 22

Bare(kind) ==
    [kind |-> kind, player |-> <<>>, entity |-> <<>>, code |-> <<>>, from |-> <<>>, to |-> <<>>,
     count |-> <<>>, amount |-> <<>>, counter |-> <<>>, phase |-> <<>>, winner |-> <<>>,
     reason |-> <<>>, description |-> <<>>, targets |-> <<>>]

Given(condition, value) == IF condition THEN <<value>> ELSE <<>>

(* Mutant: whoever controls a card is taken to know it. *)
ShowsToController(place, me) == place.up \/ place.controller = me

(* event_identity_visible, without a reveal: not even the controller is     *)
(* taken to know a card that lies face down.                                *)
Shows(place, me) == place.up

(* safe_locator *)
SafeLocator(place, me, revealed) ==
    LET zone == ZoneAt(place)
        hidden == \/ zone = MainDeck
                  \/ zone = Hand /\ place.controller # me /\ ~revealed
                  \/ zone = ExtraDeck /\ place.controller # me /\ ~revealed /\ ~place.up
    IN  Given(~hidden, SlotLocator(place.controller, zone, place.sequence))

Locators(places, me) ==
    FlattenSeq([i \in DOMAIN places |-> SafeLocator(places[i], me, FALSE)])

MoveKind(m) ==
    LET from == ZoneAt(m.from)
        to == ZoneAt(m.to)
    IN  CASE to = Banished -> CardBanished
          [] to = Graveyard /\ m.destroyed -> CardDestroyed
          [] to # Banished /\ ~(to = Graveyard /\ m.destroyed) ->
                IF from \in {Banished, Graveyard} THEN CardReturned ELSE CardMoved

(* A card of the acting message, at its place. *)
Placed(kind, m, me) ==
    [Bare(kind) EXCEPT !.player = <<m.at.controller>>, !.to = <<ZoneAt(m.at)>>,
                       !.code = Given(Shows(m.at, me), m.code),
                       !.entity = SafeLocator(m.at, me, FALSE)]

Moved(m, me) ==
    [Bare(MoveKind(m)) EXCEPT
        !.player = <<m.to.controller>>, !.from = <<ZoneAt(m.from)>>, !.to = <<ZoneAt(m.to)>>,
        !.code = Given(Shows(m.from, me) \/ Shows(m.to, me), m.code),
        !.entity = SafeLocator(m.to, me, FALSE)]

Turned(m, me) ==
    [Placed(PositionChanged, m, me) EXCEPT !.code = Given(m.was \/ Shows(m.at, me), m.code)]

Drawn(m, me) ==
    LET shown == Selected(m.cards, {i \in DOMAIN m.cards : m.player = me \/ m.cards[i].up})
    IN  <<[Bare(Draw) EXCEPT !.player = <<m.player>>, !.count = <<Len(m.cards)>>]>>
        \o [i \in DOMAIN shown |->
              [Bare(CardRevealed) EXCEPT !.player = <<m.player>>, !.code = <<shown[i].code>>]]

Confirmed(m, c, me) ==
    [Bare(CardRevealed) EXCEPT !.player = <<c.at.controller>>, !.to = <<ZoneAt(c.at)>>,
                               !.code = Given(m.recipient = me, c.code),
                               !.entity = IF m.recipient = me THEN SafeLocator(c.at, me, TRUE)
                                          ELSE <<>>]

Chaining(m, me) ==
    [Placed(ChainActivated, m, me) EXCEPT
        !.player = <<m.player>>, !.count = <<m.count>>,
        !.description = Given(Shows(m.at, me), m.description)]

Related(kind, m, me) ==
    [Bare(kind) EXCEPT !.player = <<m.source.controller>>,
                       !.entity = SafeLocator(m.source, me, FALSE),
                       !.targets = Locators(<<m.target>>, me)]

(* project_visible_events, of one message. *)
EventsOf(m, me) ==
    CASE m.t = "new_turn" -> <<[Bare(TurnStarted) EXCEPT !.player = <<m.player>>]>>
      [] m.t = "new_phase" -> <<[Bare(PhaseChanged) EXCEPT !.phase = <<m.phase>>]>>
      [] m.t = "win" -> <<[Bare(Win) EXCEPT !.winner = <<m.winner>>, !.reason = <<m.reason>>]>>
      [] m.t = "shuffle" ->
            <<[Bare(Shuffle) EXCEPT !.player = m.player],
              [Bare(RandomizationBoundary) EXCEPT !.player = m.player, !.count = <<0>>]>>
      [] m.t = "move" -> <<Moved(m, me)>>
      [] m.t = "pos_change" -> <<Turned(m, me)>>
      [] m.t = "set" -> <<Placed(CardSet, m, me)>>
      [] m.t \in {"summoning", "flipsummoning"} -> <<Placed(Summoned, m, me)>>
      [] m.t = "summoned" -> <<Bare(Summoned)>>
      [] m.t = "draw" -> Drawn(m, me)
      [] m.t = "confirm" -> [i \in DOMAIN m.cards |-> Confirmed(m, m.cards[i], me)]
      [] m.t \in {"lp_update", "damage"} ->
            <<[Bare(LifePointsChanged) EXCEPT
                  !.player = <<m.player>>,
                  !.amount = <<IF m.t = "damage" THEN 0 - m.amount ELSE m.amount>>]>>
      [] m.t = "chaining" -> <<Chaining(m, me)>>
      [] m.t = "chained" -> <<[Bare(ChainActivated) EXCEPT !.count = <<m.count>>]>>
      [] m.t = "chain_solved" -> <<[Bare(ChainResolved) EXCEPT !.count = <<m.count>>]>>
      [] m.t = "chain_end" -> <<Bare(ChainEnded)>>
      [] m.t = "become_target" -> <<[Bare(Targeted) EXCEPT !.targets = Locators(m.places, me)]>>
      [] m.t \in {"equip", "unequip", "card_target"} ->
            <<Related(CASE m.t = "equip" -> Equipped [] m.t = "unequip" -> Unequipped
                        [] m.t = "card_target" -> Targeted, m, me)>>
      [] m.t = "counter" ->
            <<[Bare(CounterChanged) EXCEPT
                  !.player = <<m.at.controller>>, !.counter = <<m.counter>>, !.amount = <<m.amount>>,
                  !.entity = SafeLocator(m.at, me, FALSE)]>>
      [] OTHER -> <<>>           \* the other families are not copied

----------------------------------------------------------------------------
(* ObservationSession: the events so far, numbered over all messages.       *)
NewSession == [events |-> <<>>, next |-> 0]

(* Mutant: every batch of messages is numbered from zero. *)
IngestFromZero(session, messages, me, step) ==
    LET fresh == FlattenSeq([i \in DOMAIN messages |-> EventsOf(messages[i], me)])
    IN  [events |-> session.events
                    \o [i \in DOMAIN fresh |-> [index |-> i - 1, step |-> step, event |-> fresh[i]]],
         next |-> Len(fresh)]

Ingest(session, messages, me, step) ==
    LET fresh == FlattenSeq([i \in DOMAIN messages |-> EventsOf(messages[i], me)])
    IN  [events |-> session.events
                    \o [i \in DOMAIN fresh |->
                          [index |-> session.next + i - 1, step |-> step, event |-> fresh[i]]],
         next |-> session.next + Len(fresh)]

----------------------------------------------------------------------------
(* The observation of the field. *)

Players == 0..1

FaceUp == 1
FaceDown == 2

(* A card of whatever zone, as a query tells of it. *)
Query(player, location, sequence, card) ==
    [controller |-> player, location |-> location, sequence |-> sequence, card |-> card,
     zone |-> ProjectZone(location, sequence)]

ListAt(cards, player, location) ==
    [i \in DOMAIN cards |-> Query(player, location, i - 1, cards[i])]

SlotsAt(slots, player, location) ==
    LET taken == Ascending({s \in DOMAIN slots : slots[s] # <<>>})
    IN  [i \in DOMAIN taken |-> Query(player, location, taken[i], slots[taken[i]][1])]

Locations == <<"hand", "mzone", "szone", "grave", "removed", "extra">>

(* What the query of a location tells. *)
At(w, p, location) ==
    CASE location = "hand" -> ListAt(w.hand[p], p, location)
      [] location = "mzone" -> SlotsAt(w.monsters[p], p, location)
      [] location = "szone" -> SlotsAt(w.spells[p], p, location)
      [] location = "grave" -> ListAt(w.grave[p], p, location)
      [] location = "removed" -> ListAt(w.banished[p], p, location)
      [] location = "extra" -> ListAt(w.extra[p], p, location)

(* All of them, in the order of the builder. *)
Queried(w) ==
    [n \in 1..12 |-> IF n <= 6 THEN At(w, 0, Locations[n]) ELSE At(w, 1, Locations[n - 6])]

(* OCG_DuelQuery of the j-th material of a card, in the patched engine: the *)
(* material's own record, with its number where others have their position. *)
MaterialQuery(q, j) ==
    [code |-> <<q.card.materials[j].code>>, owner |-> q.card.materials[j].owner,
     position |-> j - 1]

----------------------------------------------------------------------------
(* Who may know what. *)

(* card_identity_visible *)
IdentityVisible(q, me) ==
    IF q.card.owner = me THEN q.zone # MainDeck ELSE q.card.shown \/ q.card.up

(* Mutant: only the materials of a player's own cards are known. *)
MaterialVisibleToOwner(q, j, me) == q.card.owner = me /\ MaterialQuery(q, j).code # <<>>

(* overlay_material_identity_visible: known with its host, if the query has *)
(* its code.                                                                *)
MaterialVisible(q, j, me) == IdentityVisible(q, me) /\ MaterialQuery(q, j).code # <<>>

(* keep_entity *)
Keep(q, me) ==
    /\ q.zone # MainDeck
    /\ q.zone \in {Hand, ExtraDeck} => IdentityVisible(q, me)

(* sequence_is_visible *)
SequenceVisible(q, me) ==
    \/ q.zone \in {MonsterZone, SpellTrapZone, FieldZone, PendulumRelevant, Graveyard, Banished}
    \/ q.zone = Hand /\ q.card.owner = me

(* The cards that become entities, in order. *)
KeptOf(cards, me) == Selected(cards, {i \in DOMAIN cards : Keep(cards[i], me)})
Kept(w, me) == FlattenSeq([n \in DOMAIN Queried(w) |-> KeptOf(Queried(w)[n], me)])

(* How many alike cards, of no visible place, came before. *)
Ordinal(kept, i, me) ==
    Cardinality({j \in 1..(i - 1) : /\ ~SequenceVisible(kept[j], me)
                                    /\ kept[j].controller = kept[i].controller
                                    /\ kept[j].card.code = kept[i].card.code})

(* locator_for *)
Locator(kept, i, me) ==
    LET q == kept[i]
    IN  IF SequenceVisible(q, me) THEN SlotLocator(q.controller, q.zone, q.sequence)
        ELSE Word(<<q.controller, q.zone, 1, q.card.code, Ordinal(kept, i, me)>>)

MaterialLocator(q, j) == Word(<<q.controller, Overlay, 0, q.sequence, j - 1>>)

----------------------------------------------------------------------------
(* add_card_entity, project_card *)
Entity(kept, i, me) ==
    LET q == kept[i]
        known == IdentityVisible(q, me)
    IN  [locator |-> Locator(kept, i, me), known |-> known, code |-> Given(known, q.card.code),
         printed |-> Given(known, Properties(q.card.code)),
         current |-> Given(known, Properties(q.card.code)),
         owner |-> <<q.card.owner>>, controller |-> <<q.controller>>, zone |-> q.zone,
         sequence |-> Given(SequenceVisible(q, me), q.sequence), overlay |-> <<>>,
         position |-> IF q.card.up THEN FaceUp ELSE FaceDown, up |-> q.card.up, down |-> ~q.card.up]

(* position_from_raw: the four positions face up and face down, or unknown. *)
PositionFrom(raw) == IF raw \in {1, 2, 4, 8} THEN raw ELSE 0

(* add_overlay_material *)
Material(q, j, me) ==
    LET m == MaterialQuery(q, j)
        known == MaterialVisible(q, j, me)
        position == PositionFrom(m.position)
    IN  [locator |-> MaterialLocator(q, j), known |-> known, code |-> Given(known, m.code[1]),
         printed |-> Given(known, Properties(m.code[1])),
         current |-> Given(known, Properties(m.code[1])),
         owner |-> <<m.owner>>, controller |-> <<q.controller>>, zone |-> Overlay,
         sequence |-> <<q.sequence>>, overlay |-> <<j - 1>>, position |-> position,
         up |-> position \in {1, 4}, down |-> position \in {2, 8}]

Materials(q) == IF q.zone = ExtraDeck THEN <<>> ELSE q.card.materials

Entities(kept, me) ==
    FlattenSeq([i \in DOMAIN kept |->
        <<Entity(kept, i, me)>>
        \o [j \in DOMAIN Materials(kept[i]) |-> Material(kept[i], j, me)]])

(* find_locator *)
FindLocator(kept, place, me) ==
    LET there == {i \in DOMAIN kept : /\ kept[i].controller = place.controller
                                      /\ kept[i].zone = ZoneAt(place)
                                      /\ kept[i].sequence = place.sequence}
    IN  IF there = {} THEN <<>> ELSE <<Locator(kept, CHOOSE i \in there : TRUE, me)>>

XyzMaterial == 0
Equip == 1
Target == 2

RelatedTo(kind, source, found) ==
    IF found = <<>> THEN <<>> ELSE <<[kind |-> kind, source |-> source, target |-> found[1]]>>

(* The relations of a kept card whose other end is in the observation too.  *)
RelationsOf(kept, i, me) ==
    LET q == kept[i]
        host == [controller |-> q.controller, location |-> "mzone", sequence |-> q.sequence]
        from(kind, places) ==
            FlattenSeq([j \in DOMAIN places |->
                RelatedTo(kind, Locator(kept, i, me), FindLocator(kept, places[j], me))])
    IN  IF q.zone = ExtraDeck THEN <<>>
        ELSE from(Equip, q.card.equip) \o from(Target, q.card.targets)
             \o FlattenSeq([j \in DOMAIN q.card.materials |->
                    RelatedTo(XyzMaterial, MaterialLocator(q, j), FindLocator(kept, host, me))])

Relationships(kept, me) ==
    FlattenSeq([i \in DOMAIN kept |-> RelationsOf(kept, i, me)])

----------------------------------------------------------------------------
(* add_zone_counts *)
ZoneCount(player, kind, total, public, order) ==
    [player |-> player, kind |-> kind, total |-> total, public |-> public,
     hidden |-> IF total >= public THEN total - public ELSE 0, order |-> order]

ZonesOf(w, p, me) ==
    LET monsters == w.monsters[p]
        spells == w.spells[p]
        taken(slots) == {s \in DOMAIN slots : slots[s] # <<>>}
        onField(zone, slots, location) ==
            LET there == {s \in taken(slots) : ProjectZone(location, s) = zone}
                up == {s \in there : slots[s][1].up}
            IN  ZoneCount(p, zone, Cardinality(there),
                          IF p = me THEN Cardinality(there) ELSE Cardinality(up), TRUE)
        all(zone, cards, public, order) ==
            ZoneCount(p, zone, Len(cards), IF public THEN Len(cards) ELSE 0, order)
        materials == UNION {{<<s, j>> : j \in DOMAIN monsters[s][1].materials} : s \in taken(monsters)}
        known == {m \in materials :
                    MaterialVisible(Query(p, "mzone", m[1], monsters[m[1]][1]), m[2], me)}
    IN  <<all(MainDeck, w.deck[p], FALSE, FALSE), all(Hand, w.hand[p], p = me, p = me),
          onField(MonsterZone, monsters, "mzone"), onField(SpellTrapZone, spells, "szone"),
          onField(FieldZone, spells, "szone"), onField(PendulumRelevant, spells, "szone"),
          all(Graveyard, w.grave[p], TRUE, TRUE), all(Banished, w.banished[p], TRUE, TRUE),
          ZoneCount(p, ExtraDeck, Len(w.extra[p]),
                    IF p = me THEN Len(w.extra[p])
                    ELSE Cardinality({i \in DOMAIN w.extra[p] : w.extra[p][i].up}), FALSE),
          ZoneCount(p, Overlay, Cardinality(materials), Cardinality(known), FALSE)>>

----------------------------------------------------------------------------
(* The links of the chain; a hidden source takes the effect and its targets *)
(* with it.                                                                 *)
Link(w, i, entities, relationships) ==
    LET raw == w.chain[i]
        zone == ZoneAt(raw.source)
        there == {j \in DOMAIN entities : /\ entities[j].controller = <<raw.source.controller>>
                                          /\ entities[j].zone = zone
                                          /\ entities[j].sequence = <<raw.source.sequence>>}
        source == entities[Min(there)]
        known == there # {} /\ source.known
        aimed == Selected(relationships, {j \in DOMAIN relationships :
                                             /\ relationships[j].kind = Target
                                             /\ relationships[j].source = source.locator})
    IN  [index |-> i - 1, player |-> <<raw.player>>, zone |-> <<zone>>,
         source |-> IF known THEN <<source.locator>> ELSE <<>>,
         description |-> Given(known, raw.description),
         targets |-> IF known THEN [j \in DOMAIN aimed |-> aimed[j].target] ELSE <<>>]

(* project_event_globals: the last event of a kind says how things stand.   *)
LastOf(events, kind, field) ==
    LET told == {i \in DOMAIN events : events[i].event.kind = kind /\ events[i].event[field] # <<>>}
    IN  IF told = {} THEN <<>> ELSE events[Max(told)].event[field]

Globals(w, events, toAct) ==
    LET turns == {i \in DOMAIN events : events[i].event.kind = TurnStarted}
    IN  [flags |-> 0, life |-> <<w.lp[0], w.lp[1]>>, toAct |-> toAct,
         turnPlayer |-> LastOf(events, TurnStarted, "player"),
         turns |-> Given(turns # {}, Cardinality(turns)), phase |-> LastOf(events, PhaseChanged, "phase"),
         chain |-> Len(w.chain), winner |-> LastOf(events, Win, "winner"),
         reason |-> LastOf(events, Win, "reason"),
         terminal |-> \E i \in DOMAIN events : events[i].event.kind = Win]

KnownDeck(whose, list) ==
    IF whose \in KnownDecks THEN [known |-> TRUE, main |-> list, extra |-> <<>>]
    ELSE [known |-> FALSE, main |-> <<>>, extra |-> <<>>]

(* resolve_card: the first entity the card can be.  A card of no known      *)
(* place goes by its code.                                                  *)
ResolveCard(entities, c) ==
    LET fits == {i \in DOMAIN entities :
                    /\ entities[i].controller = <<c.controller>>
                    /\ entities[i].zone = ProjectZone(c.location, c.sequence)
                    /\ entities[i].sequence \in {<<>>, <<c.sequence>>}
                    /\ c.code # 0 /\ entities[i].known => entities[i].code = <<c.code>>}
    IN  IF fits = {} THEN <<>> ELSE <<entities[Min(fits)].locator>>

(* attach_decision_context *)
Context(entities, request) ==
    [kind |-> Given(request # <<>>, request[1].kind),
     player |-> Given(request # <<>>, request[1].player),
     references |-> IF request = <<>> THEN {}
                    ELSE UNION {ToSet(ResolveCard(entities, c)) : c \in request[1].cards}]

(* build_player_observation *)
Observe(w, me, session, request) ==
    LET kept == Kept(w, me)
        entities == Entities(kept, me)
        relationships == Relationships(kept, me)
    IN  [perspective |-> me,
         globals |-> Globals(w, session.events, IF request = <<>> THEN <<>> ELSE <<request[1].player>>),
         zones |-> ZonesOf(w, 0, me) \o ZonesOf(w, 1, me), entities |-> entities,
         relationships |-> relationships,
         chain |-> [i \in DOMAIN w.chain |-> Link(w, i, entities, relationships)],
         events |-> session.events,
         own |-> KnownDeck("own", w.list[me]), opponent |-> KnownDeck("opponent", w.list[1 - me]),
         context |-> Context(entities, request)]

============================================================================
