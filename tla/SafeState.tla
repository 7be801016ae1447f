------------------------------- MODULE SafeState -------------------------------
(***************************************************************************)
(* The public safe state (public_safe_state.cpp): the part of a player's    *)
(* observation that a policy may see, in canonical bytes.  As elsewhere its *)
(* validator, writer and reader were written apart and have to agree.       *)
(*                                                                          *)
(* The optional numbers among the properties of a card are represented by   *)
(* one before and one after the link markers.                               *)
(***************************************************************************)
EXTENDS WireKinds

CONSTANT Before(_, _)  \* the order of texts

Schema == Versioned("public_safe_state", 1)

MostEvents == 22    \* the last code of a visible event
MostZones == 10     \* the last code of a zone
MostMarkers == 7
MostRelations == 2
Positions == {0, 1, 2, 4, 8}

(* PublicSafeVisibleEvent: a numbered event without its engine step. *)
SafeEvent(e) ==
    [field \in {"index"} \cup DOMAIN e.event |->
        IF field = "index" THEN e.index ELSE e.event[field]]

(* canonical_public_safe_state_bytes: the observation without the decision. *)
SafeView(o) ==
    [globals |-> o.globals, zones |-> o.zones, entities |-> o.entities,
     relationships |-> o.relationships, length |-> Len(o.chain), chain |-> o.chain,
     events |-> [i \in DOMAIN o.events |-> SafeEvent(o.events[i])],
     perspective |-> o.perspective, flags |-> o.globals.flags,
     ownKnown |-> o.own.known, opponentKnown |-> o.opponent.known,
     own |-> o.own, opponent |-> o.opponent]

----------------------------------------------------------------------------
(* Orders *)
Less(a, b) == a < b
Earlier(a, b) == \E i \in DOMAIN a : a[i] < b[i] /\ \A j \in 1..(i - 1) : a[j] = b[j]

ZoneKey(z) == <<z.player, z.kind, z.total, z.public, z.hidden, IF z.order THEN 1 ELSE 0>>
CounterKey(c) == <<c.type, c.count>>

ZoneBefore(a, b) == Earlier(ZoneKey(a), ZoneKey(b))
CounterBefore(a, b) == Earlier(CounterKey(a), CounterKey(b))
EntityBefore(a, b) == Before(a.locator, b.locator)
EventBefore(a, b) == a.index < b.index
RelationBefore(a, b) ==
    \/ a.kind < b.kind
    \/ a.kind = b.kind /\ Before(a.source, b.source)
    \/ a.kind = b.kind /\ a.source = b.source /\ Before(a.target, b.target)

InOrder(s, Lt(_, _)) == \A i \in 2..Len(s) : ~Lt(s[i], s[i - 1])
InStrictOrder(s, Lt(_, _)) == \A i \in 2..Len(s) : Lt(s[i - 1], s[i])
NoTwo(s, Of(_)) == \A i, j \in DOMAIN s : Of(s[i]) = Of(s[j]) => i = j

----------------------------------------------------------------------------
(* validate_observation *)
IsLocator(text) == text # <<>> /\ \A i \in DOMAIN text : text[i] # Byte(0)
MaybePlayer(p) == p # <<>> => p[1] <= 1
MaybeLocator(l) == l # <<>> => IsLocator(l[1])

(* validate_card: what is hidden has no identity. *)
ValidCard(c) ==
    /\ IsLocator(c.locator) /\ MaybePlayer(c.owner) /\ MaybePlayer(c.controller)
    /\ c.position \in Positions /\ ~(c.up /\ c.down)
    /\ ~c.known => c.code = <<>> /\ c.printed = <<>> /\ c.current = <<>>

(* validate_deck *)
ValidDeck(d) == ~d.known => d.main = <<>> /\ d.extra = <<>>

Writable(v) ==
    /\ v.perspective <= 1
    /\ \A i \in DOMAIN v.zones : v.zones[i].player <= 1
    /\ \A i \in DOMAIN v.entities : ValidCard(v.entities[i])
    /\ NoTwo(v.entities, LAMBDA c : c.locator)
    /\ \A i \in DOMAIN v.relationships :
          IsLocator(v.relationships[i].source) /\ IsLocator(v.relationships[i].target)
    /\ MaybePlayer(v.globals.toAct) /\ MaybePlayer(v.globals.turnPlayer)
    /\ \A i \in DOMAIN v.chain :
          /\ MaybePlayer(v.chain[i].player) /\ MaybeLocator(v.chain[i].source)
          /\ \A j \in DOMAIN v.chain[i].targets : IsLocator(v.chain[i].targets[j])
    /\ \A i \in DOMAIN v.events :
          /\ MaybePlayer(v.events[i].player) /\ MaybeLocator(v.events[i].entity)
          /\ \A j \in DOMAIN v.events[i].targets : IsLocator(v.events[i].targets[j])
    /\ NoTwo(v.events, LAMBDA e : e.index)
    /\ ValidDeck(v.own) /\ ValidDeck(v.opponent)

----------------------------------------------------------------------------
(* encode_view: everything without an order of its own is sorted.           *)
OptU(width, value) == Opt(value, LAMBDA n : U(width, n))
PutTargets(targets) == List(SortSeq(targets, Before), Text)

(* append_properties *)
PutProperties(p) ==
    OptU(4, p.before) \o List(SortSeq(p.markers, Less), LAMBDA m : U(1, m)) \o OptU(4, p.after)
    \o List(SortSeq(p.counters, CounterBefore), LAMBDA c : U(4, c.type) \o U(4, c.count))

(* append_globals *)
PutGlobals(g) ==
    U(8, g.flags) \o List(g.life, LAMBDA n : U(4, n)) \o OptU(1, g.toAct) \o OptU(1, g.turnPlayer)
    \o OptU(4, g.turns) \o OptU(4, g.phase) \o U(4, g.chain) \o OptU(1, g.winner)
    \o OptU(1, g.reason) \o Flag(g.terminal)

(* append_zones *)
PutZone(z) ==
    U(1, z.player) \o U(1, z.kind) \o U(4, z.total) \o U(4, z.public) \o U(4, z.hidden)
    \o Flag(z.order)

(* append_entities *)
PutEntity(c) ==
    Text(c.locator) \o Flag(c.known) \o OptU(4, c.code) \o OptU(1, c.owner) \o OptU(1, c.controller)
    \o U(1, c.zone) \o OptU(4, c.sequence) \o OptU(4, c.overlay) \o U(1, c.position)
    \o Flag(c.up) \o Flag(c.down) \o Opt(c.printed, PutProperties) \o Opt(c.current, PutProperties)

(* append_relationships *)
PutRelationship(r) == U(1, r.kind) \o Text(r.source) \o Text(r.target)

(* append_chain *)
PutLink(l) ==
    U(4, l.index) \o OptU(1, l.player) \o Opt(l.source, Text) \o OptU(1, l.zone)
    \o OptU(8, l.description) \o PutTargets(l.targets)

(* append_visible_event *)
PutEvent(e) ==
    U(8, e.index) \o U(1, e.kind) \o OptU(1, e.player) \o Opt(e.entity, Text) \o OptU(4, e.code)
    \o OptU(1, e.from) \o OptU(1, e.to) \o OptU(4, e.count) \o OptU(4, e.amount)
    \o OptU(4, e.counter) \o OptU(4, e.phase) \o OptU(1, e.winner) \o OptU(1, e.reason)
    \o OptU(8, e.description) \o PutTargets(e.targets)

(* append_deck *)
PutDeck(d) ==
    Flag(d.known) \o List(SortSeq(d.main, Less), LAMBDA n : U(4, n))
    \o List(SortSeq(d.extra, Less), LAMBDA n : U(4, n))

(* append_match_context *)
PutMatch(v) ==
    U(1, v.perspective) \o U(8, v.flags) \o Flag(v.ownKnown) \o Flag(v.opponentKnown)
    \o PutDeck(v.own) \o PutDeck(v.opponent)

PutState(v) ==
    Text(Schema) \o Text(Schema) \o PutGlobals(v.globals)
    \o List(SortSeq(v.zones, ZoneBefore), PutZone)
    \o List(SortSeq(v.entities, EntityBefore), PutEntity)
    \o List(SortSeq(v.relationships, RelationBefore), PutRelationship)
    \o U(4, v.length) \o List(v.chain, PutLink)
    \o List(SortSeq(v.events, EventBefore), PutEvent) \o PutMatch(v)

StateBytes(v) == IF Writable(v) THEN PutState(v) ELSE Refused

----------------------------------------------------------------------------
(* read_safe_state, with the Cursor and the read_ functions.                *)
MaybeU(width) == Maybe(UInt(width))
MaybeZone == Maybe(Code(MostZones))
Targets == ListOf(AnyText, 4)

GlobalsLayout ==
    <<<<"flags", UInt(8)>>, <<"life", ListOf(UInt(4), 4)>>, <<"toAct", MaybeU(1)>>,
      <<"turnPlayer", MaybeU(1)>>, <<"turns", MaybeU(4)>>, <<"phase", MaybeU(4)>>,
      <<"chain", UInt(4)>>, <<"winner", MaybeU(1)>>, <<"reason", MaybeU(1)>>,
      <<"terminal", Boolean>>>>

ZoneLayout ==
    <<<<"player", Code(1)>>, <<"kind", Code(MostZones)>>, <<"total", UInt(4)>>,
      <<"public", UInt(4)>>, <<"hidden", UInt(4)>>, <<"order", Boolean>>>>

EntityLayout ==
    <<<<"locator", AnyText>>, <<"known", Boolean>>, <<"code", MaybeU(4)>>,
      <<"owner", MaybeU(1)>>, <<"controller", MaybeU(1)>>, <<"zone", Code(MostZones)>>,
      <<"sequence", MaybeU(4)>>, <<"overlay", MaybeU(4)>>, <<"position", UInt(1)>>,
      <<"up", Boolean>>, <<"down", Boolean>>, <<"printed", Maybe(Message("properties"))>>,
      <<"current", Maybe(Message("properties"))>>>>

(* read_properties *)
PropertiesLayout ==
    <<<<"before", MaybeU(4)>>, <<"markers", ListOf(Code(MostMarkers), 1)>>,
      <<"after", MaybeU(4)>>, <<"counters", ListOf(Message("counter"), 8)>>>>

RelationshipLayout ==
    <<<<"kind", Code(MostRelations)>>, <<"source", AnyText>>, <<"target", AnyText>>>>

LinkLayout ==
    <<<<"index", UInt(4)>>, <<"player", MaybeU(1)>>, <<"source", Maybe(AnyText)>>,
      <<"zone", MaybeZone>>, <<"description", MaybeU(8)>>, <<"targets", Targets>>>>

EventLayout ==
    <<<<"index", UInt(8)>>, <<"kind", Code(MostEvents)>>, <<"player", MaybeU(1)>>,
      <<"entity", Maybe(AnyText)>>, <<"code", MaybeU(4)>>, <<"from", MaybeZone>>,
      <<"to", MaybeZone>>, <<"count", MaybeU(4)>>, <<"amount", Maybe(Int32)>>,
      <<"counter", MaybeU(4)>>, <<"phase", MaybeU(4)>>, <<"winner", MaybeU(1)>>,
      <<"reason", MaybeU(1)>>, <<"description", MaybeU(8)>>, <<"targets", Targets>>>>

StateLayout(name) ==
    CASE name = "state" ->
            <<<<"", Only(Schema)>>, <<"", Only(Schema)>>, <<"globals", Message("globals")>>,
              <<"zones", ListOf(Message("zone"), 15)>>, <<"entities", ListOf(Message("entity"), 16)>>,
              <<"relationships", ListOf(Message("relationship"), 9)>>, <<"length", UInt(4)>>,
              <<"chain", ListOf(Message("link"), 12)>>, <<"events", ListOf(Message("event"), 25)>>,
              <<"perspective", Code(1)>>, <<"flags", UInt(8)>>, <<"ownKnown", Boolean>>,
              <<"opponentKnown", Boolean>>, <<"own", Message("deck")>>,
              <<"opponent", Message("deck")>>>>
      [] name = "globals" -> GlobalsLayout
      [] name = "zone" -> ZoneLayout
      [] name = "entity" -> EntityLayout
      [] name = "properties" -> PropertiesLayout
      [] name = "counter" -> <<<<"type", UInt(4)>>, <<"count", UInt(4)>>>>
      [] name = "relationship" -> RelationshipLayout
      [] name = "link" -> LinkLayout
      [] name = "event" -> EventLayout
      [] name = "deck" ->
            <<<<"known", Boolean>>, <<"main", ListOf(UInt(4), 4)>>, <<"extra", ListOf(UInt(4), 4)>>>>

ReadTargets(targets) ==
    InOrder(targets, Before) /\ \A i \in DOMAIN targets : IsLocator(targets[i])

(* The reader's own checks: what the writer sorts has to be sorted.         *)
StateRead(name, v) ==
    CASE name = "state" ->
            /\ InOrder(v.zones, ZoneBefore) /\ InStrictOrder(v.entities, EntityBefore)
            /\ InOrder(v.relationships, RelationBefore) /\ InStrictOrder(v.events, EventBefore)
      [] name = "globals" -> MaybePlayer(v.toAct) /\ MaybePlayer(v.turnPlayer)
      [] name = "entity" -> ValidCard(v)
      [] name = "properties" -> InOrder(v.markers, Less) /\ InOrder(v.counters, CounterBefore)
      [] name = "relationship" -> IsLocator(v.source) /\ IsLocator(v.target)
      [] name = "link" -> MaybePlayer(v.player) /\ MaybeLocator(v.source) /\ ReadTargets(v.targets)
      [] name = "event" -> MaybePlayer(v.player) /\ MaybeLocator(v.entity) /\ ReadTargets(v.targets)
      [] name = "deck" -> InOrder(v.main, Less) /\ InOrder(v.extra, Less) /\ ValidDeck(v)
      [] name \in {"zone", "counter"} -> TRUE

============================================================================
