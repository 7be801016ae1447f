------------------------------ MODULE PairedWorlds ------------------------------
(***************************************************************************)
(* Two duels that differ only in what player 0 may not know, moved together *)
(* by the engine.  The moves are the engine's, and what a player sees of    *)
(* one is the game's rule, neither of them this repository's; the messages  *)
(* and the answers to queries that a move leaves behind are what the        *)
(* observation is built from.  A card with materials stays in its slot.     *)
(***************************************************************************)
EXTENDS PlayerObservation, SafeState

CONSTANTS MonsterSlots, SpellSlots,
          Starts,        \* pairs of fields that look the same to player 0
          MixedShuffle,  \* whether set cards of two owners are shuffled together
          MaxMoves       \* bound on the moves of the engine

VARIABLES world,    \* the field in each of the two duels
          session,  \* what the observation session of player 0 made of each
          moves
vars == <<world, session, moves>>

me == 0
Duels == 1..2

Card(code, owner) ==
    [code |-> code, owner |-> owner, up |-> FALSE, shown |-> FALSE, materials |-> <<>>,
     equip |-> <<>>, targets |-> <<>>]
Fresh(c) == Card(c.code, c.owner)
Upwards(c) == [c EXCEPT !.up = TRUE]

----------------------------------------------------------------------------
(* Places and moves of cards *)
Place(p, location, sequence, up) ==
    [controller |-> p, location |-> location, sequence |-> sequence, up |-> up]
InHand(p, i, c) == Place(p, "hand", i - 1, c.up)
Slots(row) == IF row = "monsters" THEN MonsterSlots ELSE SpellSlots
OnField(row, p, s, c) == Place(p, IF row = "monsters" THEN "mzone" ELSE "szone", s, c.up)
Taken(w, row, p) == {s \in Slots(row) : w[row][p][s] # <<>>}
Free(w, row, p) == Slots(row) \ Taken(w, row, p)
CardAt(w, row, p, s) == w[row][p][s][1]

MoveTold(c, from, to, destroyed) ==
    [t |-> "move", code |-> c.code, from |-> from, to |-> to, destroyed |-> destroyed]
AtTold(t, c, at) == [t |-> t, code |-> c.code, at |-> at]

(* A card that leaves its slot is no target any more. *)
Forgets(c, p, s) ==
    LET others(places) == Selected(places, {i \in DOMAIN places :
                              ~(places[i].controller = p /\ places[i].sequence = s)})
    IN  [c EXCEPT !.targets = others(@), !.equip = others(@)]
Vacated(w, row, p, s) ==
    LET left == [w EXCEPT ![row][p][s] = <<>>]
        forget(slots) == [t \in DOMAIN slots |->
                            IF slots[t] = <<>> \/ row = "spells" THEN slots[t]
                            ELSE <<Forgets(slots[t][1], p, s)>>]
    IN  [left EXCEPT !.monsters = [q \in Players |-> forget(left.monsters[q])],
                     !.spells = [q \in Players |-> forget(left.spells[q])]]

(* A move: the field after it, the messages, and what player 0 sees of it.  *)
After(field, told, seen) == [field |-> field, told |-> told, seen |-> seen]

----------------------------------------------------------------------------
(* From deck and hand *)
Draws(w) ==
    {LET c == Card(Head(w.deck[p]), p)
     IN  After([w EXCEPT !.deck[p] = Tail(@), !.hand[p] = Append(@, c)],
               <<[t |-> "draw", player |-> p, cards |-> <<[code |-> c.code, up |-> FALSE]>>]>>,
               <<"draw", p, IF p = me THEN c.code ELSE 0>>)
     : p \in {p \in Players : w.deck[p] # <<>>}}

(* A card is played: face up, or set.  The opponent's shows if it is face   *)
(* up, or was shown before.                                                 *)
Played(w, p, i, row, s, up) ==
    LET c == w.hand[p][i]
        placed == [Fresh(c) EXCEPT !.up = up]
        to == OnField(row, p, s, placed)
    IN  After([w EXCEPT !.hand[p] = RemoveAt(@, i), ![row][p][s] = <<placed>>],
              <<MoveTold(c, InHand(p, i, c), to, FALSE),
                AtTold(IF up THEN "summoning" ELSE "set", c, to)>>
              \o (IF up THEN <<[t |-> "summoned"]>> ELSE <<>>),
              <<"play", p, row, s, up, c.shown, IF p = me THEN i ELSE 0,
                IF p = me \/ up \/ c.shown THEN c.code ELSE 0>>)

Plays(w) ==
    UNION {{Played(w, p, i, row, s, up)
            : i \in DOMAIN w.hand[p], s \in Free(w, row, p),
              up \in {u \in BOOLEAN : u => row = "monsters"}}
           : p \in Players, row \in {"monsters", "spells"}}

(* A hand is shuffled: its owner sees how. *)
HandShuffles(w) ==
    UNION {{After([w EXCEPT !.hand[p] = [i \in DOMAIN @ |-> @[order[i]]]],
                  <<[t |-> "shuffle", player |-> <<p>>]>>,
                  <<"shuffle", p, IF p = me THEN order ELSE <<>>>>)
            : order \in {f \in [DOMAIN w.hand[p] -> DOMAIN w.hand[p]] : IsInjective(f)}}
           : p \in {p \in Players : Len(w.hand[p]) > 1}}

(* The opponent's card is confirmed to player 0, or stays revealed.         *)
Confirms(w) ==
    {LET c == w.hand[1][i]
     IN  After(w, <<[t |-> "confirm", recipient |-> me,
                     cards |-> <<[code |-> c.code, at |-> [InHand(1, i, c) EXCEPT !.up = TRUE]]>>]>>,
               <<"confirm", i, c.code, c.shown>>)
     : i \in DOMAIN w.hand[1]}
    \cup
    {LET c == w.hand[0][i]
     IN  After(w, <<[t |-> "confirm", recipient |-> 1,
                     cards |-> <<[code |-> c.code, at |-> [InHand(0, i, c) EXCEPT !.up = TRUE]]>>]>>,
               <<"confirm own", i>>)
     : i \in DOMAIN w.hand[0]}
    \cup
    {LET c == [w.hand[1][i] EXCEPT !.up = TRUE, !.shown = TRUE]
     IN  After([w EXCEPT !.hand[1][i] = c], <<>>, <<"show", c.code>>)
     : i \in {i \in DOMAIN w.hand[1] : ~w.hand[1][i].shown}}

----------------------------------------------------------------------------
(* On the field *)
Flipped(w, p, s) ==
    LET c == CardAt(w, "monsters", p, s)
        turned == [c EXCEPT !.up = ~@]
        at == OnField("monsters", p, s, turned)
    IN  After([w EXCEPT !.monsters[p][s] = <<turned>>],
              <<[t |-> "pos_change", code |-> c.code, at |-> at, was |-> c.up]>>
              \o (IF turned.up THEN <<AtTold("flipsummoning", c, at)>> ELSE <<>>),
              <<"turn", p, s, c.code, c.materials>>)

Turns(w) == UNION {{Flipped(w, p, s) : s \in Taken(w, "monsters", p)} : p \in Players}

(* A card leaves the field, for its owner's pile or hand. *)
Leaving(w, row, p, s, location, up) ==
    LET c == CardAt(w, row, p, s)
        gone == [Fresh(c) EXCEPT !.up = up]
        pile == CASE location = "grave" -> "grave" [] location = "removed" -> "banished"
                  [] location = "hand" -> "hand"
        to == Place(c.owner, location, Len(w[pile][c.owner]), up)
        left == Vacated(w, row, p, s)
    IN  After([left EXCEPT ![pile][c.owner] = Append(@, gone)],
              <<MoveTold(c, OnField(row, p, s, c), to, location = "grave")>>,
              <<"leave", row, p, s, location, up, c.owner,
                IF up \/ c.up \/ c.owner = me THEN c.code ELSE 0>>)

Leaves(w) ==
    UNION {{Leaving(w, row, p, s, location, up)
            : s \in {s \in Taken(w, row, p) : CardAt(w, row, p, s).materials = <<>>},
              up \in {u \in BOOLEAN : (location = "grave" => u) /\ (location = "hand" => ~u)}}
           : p \in Players, row \in {"monsters", "spells"}, location \in {"grave", "hand", "removed"}}

(* Two set monsters of a player change places, or do not: who does it sees. *)
Down(w, p) ==
    {s \in Taken(w, "monsters", p) : LET c == CardAt(w, "monsters", p, s)
                                     IN  ~c.up /\ c.materials = <<>>}
SetShuffled(w, p, order) ==
    After([w EXCEPT !.monsters[p] = [s \in DOMAIN @ |->
                                       IF s \in Down(w, p) THEN @[order[s]] ELSE @[s]]],
          <<[t |-> "shuffle", player |-> <<p>>]>>,
          <<"shuffle set", p, IF p = me THEN order ELSE <<>>>>)

SetShuffles(w) ==
    UNION {{SetShuffled(w, p, order)
            : order \in {f \in [Down(w, p) -> Down(w, p)] : IsInjective(f)}}
           : p \in {p \in Players :
                      /\ Cardinality(Down(w, p)) > 1
                      /\ MixedShuffle \/ \A s \in Down(w, p) : CardAt(w, "monsters", p, s).owner = p}}

Controlled(w, p, s, s2) ==
    LET c == CardAt(w, "monsters", p, s)
        other == 1 - p
    IN  After([Vacated(w, "monsters", p, s) EXCEPT !.monsters[other][s2] = <<c>>],
              <<MoveTold(c, OnField("monsters", p, s, c), OnField("monsters", other, s2, c), FALSE)>>,
              <<"control", p, s, s2>>)

TakesControl(w) ==
    UNION {{Controlled(w, p, s, s2)
            : s \in {s \in Taken(w, "monsters", p) : CardAt(w, "monsters", p, s).materials = <<>>},
              s2 \in Free(w, "monsters", 1 - p)}
           : p \in Players}

(* A monster becomes the material of another; the place of a material has   *)
(* its number where others have their position.                             *)
Attached(w, p, host, s) ==
    LET c == CardAt(w, "monsters", p, s)
        number == Len(CardAt(w, "monsters", p, host).materials)
        to == Place(p, "material", host, number = 1)
    IN  After([Vacated(w, "monsters", p, s) EXCEPT
                  !.monsters[p][host][1].materials = Append(@, Fresh(c))],
              <<MoveTold(c, OnField("monsters", p, s, c), to, FALSE)>>,
              <<"attach", p, s, host, c.code>>)

Attaches(w) ==
    UNION {UNION {{Attached(w, p, host, s)
                   : s \in {s \in Taken(w, "monsters", p) \ {host} :
                               CardAt(w, "monsters", p, s).materials = <<>>}}
                  : host \in {s \in Taken(w, "monsters", p) : CardAt(w, "monsters", p, s).up}}
           : p \in Players}

(* A card of the opponent is equipped to a monster of its own, or targets   *)
(* one of player 0.                                                         *)
AimedAt(w, s, p, t) ==
    LET at == OnField("spells", 1, s, CardAt(w, "spells", 1, s))
        aim == OnField("monsters", p, t, CardAt(w, "monsters", p, t))
    IN  After([w EXCEPT !.spells[1][s][1] =
                  IF p = 1 THEN [@ EXCEPT !.equip = <<aim>>] ELSE [@ EXCEPT !.targets = <<aim>>]],
              IF p = 1 THEN <<[t |-> "equip", source |-> at, target |-> aim]>>
              ELSE <<[t |-> "card_target", source |-> at, target |-> aim],
                     [t |-> "become_target", places |-> <<aim>>]>>,
              <<"aim", s, p, t>>)

Aims(w) ==
    UNION {{AimedAt(w, s, p, t)
            : s \in {s \in Taken(w, "spells", 1) : LET c == CardAt(w, "spells", 1, s)
                                                  IN  c.targets = <<>> /\ c.equip = <<>>},
              t \in Taken(w, "monsters", p)}
           : p \in Players}

(* A set card is activated, and the chain resolved. *)
ActivatedAt(w, p, s) ==
    LET c == Upwards(CardAt(w, "spells", p, s))
        at == OnField("spells", p, s, c)
        count == Len(w.chain) + 1
        link == [player |-> p, source |-> at, description |-> c.code]
    IN  After([w EXCEPT !.spells[p][s] = <<c>>, !.chain = Append(@, link)],
              <<[t |-> "chaining", code |-> c.code, at |-> at, player |-> p,
                 description |-> c.code, count |-> count],
                [t |-> "chained", count |-> count]>>,
              <<"activate", p, s, c.code>>)

Resolved(w) ==
    After([w EXCEPT !.chain = <<>>],
          <<[t |-> "chain_solved", count |-> Len(w.chain)], [t |-> "chain_end"]>>, <<"resolve">>)

Activates(w) ==
    UNION {{ActivatedAt(w, p, s)
            : s \in {s \in Taken(w, "spells", p) : ~CardAt(w, "spells", p, s).up}}
           : p \in Players}
Resolutions(w) == IF w.chain = <<>> THEN {} ELSE {Resolved(w)}

Passes(w) ==
    {After(w, <<[t |-> "new_turn", player |-> 1], [t |-> "new_phase", phase |-> 1]>>, <<"turn of 1">>),
     After([w EXCEPT !.lp[0] = 0],
           <<[t |-> "damage", player |-> 0, amount |-> w.lp[0]],
             [t |-> "win", winner |-> 1, reason |-> 1]>>, <<"win">>)}

EngineMoves(w) ==
    IF w.lp[0] = 0 THEN {}
    ELSE UNION {Draws(w), Plays(w), HandShuffles(w), Confirms(w), Turns(w), Leaves(w),
                SetShuffles(w), TakesControl(w), Attaches(w), Aims(w), Activates(w),
                Resolutions(w), Passes(w)}

----------------------------------------------------------------------------
(* The fields these moves are made for.  Only the opponent's cards in hand  *)
(* are shown, only monsters have materials, only the opponent's spells aim. *)
Codes == Nat \ {0}
CardsWith(materials) ==
    [code : Codes, owner : Players, up : BOOLEAN, shown : {FALSE}, materials : materials,
     equip : {<<>>}, targets : {<<>>}]
PlainCards == CardsWith({<<>>})
MonsterCards == CardsWith(Seq(PlainCards))
HeldCards ==
    [code : Codes, owner : Players, up : BOOLEAN, shown : BOOLEAN, materials : {<<>>},
     equip : {<<>>}, targets : {<<>>}]
Aimed == [controller : Players, location : {"mzone"}, sequence : MonsterSlots, up : BOOLEAN]
SpellCards ==
    [code : Codes, owner : Players, up : BOOLEAN, shown : {FALSE}, materials : {<<>>},
     equip : Seq(Aimed), targets : Seq(Aimed)]
Links ==
    [player : Players, description : Codes,
     source : [controller : Players, location : {"szone"}, sequence : SpellSlots, up : BOOLEAN]]

Fields ==
    [hand : [Players -> Seq(HeldCards)], deck : [Players -> Seq(Codes)],
     monsters : [Players -> [MonsterSlots -> Seq(MonsterCards)]],
     spells : [Players -> [SpellSlots -> Seq(SpellCards)]],
     grave : [Players -> Seq(PlainCards)], banished : [Players -> Seq(PlainCards)],
     extra : [Players -> Seq(PlainCards)], chain : Seq(Links), lp : [Players -> Nat],
     list : [Players -> Seq(Nat)]]

Proper(w) ==
    /\ w \in Fields
    /\ \A p \in Players :
          /\ \A i \in DOMAIN w.hand[p] :
                LET c == w.hand[p][i] IN c.owner = p /\ c.up = c.shown /\ (c.shown => p = 1)
          /\ \A i \in DOMAIN w.grave[p] : w.grave[p][i].owner = p
          /\ \A i \in DOMAIN w.banished[p] : w.banished[p][i].owner = p
          /\ \A i \in DOMAIN w.extra[p] : w.extra[p][i].owner = p
          /\ \A s \in MonsterSlots : Len(w.monsters[p][s]) <= 1
          /\ \A s \in SpellSlots :
                /\ Len(w.spells[p][s]) <= 1
                /\ s \in Taken(w, "spells", p) =>
                      LET c == CardAt(w, "spells", p, s)
                      IN  c.owner = p /\ (p = 0 => c.equip = <<>> /\ c.targets = <<>>)

(* Fields that differ in nothing player 0 may know, the order of the        *)
(* opponent's hand aside: a card that lies open is known with its           *)
(* materials, of those under another only who owns them is.                 *)
Owners(materials) == [j \in DOMAIN materials |-> materials[j].owner]

SameCard(c, d) ==
    /\ d.owner = c.owner /\ d.up = c.up /\ d.shown = c.shown
    /\ Owners(d.materials) = Owners(c.materials) /\ d.equip = c.equip /\ d.targets = c.targets
    /\ c.owner = me \/ c.up \/ c.shown => d.code = c.code /\ d.materials = c.materials

SameCards(cards, others) ==
    Len(others) = Len(cards) /\ \A i \in DOMAIN cards : SameCard(cards[i], others[i])

SameField(w, v) ==
    /\ v.hand[me] = w.hand[me] /\ Len(v.hand[1]) = Len(w.hand[1])
    /\ v.chain = w.chain /\ v.lp = w.lp
    /\ "own" \in KnownDecks => v.list[me] = w.list[me]
    /\ "opponent" \in KnownDecks => v.list[1] = w.list[1]
    /\ \A p \in Players :
          /\ Len(v.deck[p]) = Len(w.deck[p])
          /\ \A s \in MonsterSlots : SameCards(w.monsters[p][s], v.monsters[p][s])
          /\ \A s \in SpellSlots : SameCards(w.spells[p][s], v.spells[p][s])
          /\ SameCards(w.grave[p], v.grave[p]) /\ SameCards(w.banished[p], v.banished[p])
          /\ SameCards(w.extra[p], v.extra[p])

ASSUME SlotsAssumption ==
    /\ MonsterSlots \subseteq Nat /\ IsFiniteSet(MonsterSlots)
    /\ SpellSlots \subseteq Nat /\ IsFiniteSet(SpellSlots)

ASSUME StartsAssumption ==
    \A start \in Starts :
        /\ SameField(start[1], start[2])
        /\ \A d \in Duels :
              Proper(start[d]) /\ \A i \in DOMAIN start[d].hand[1] : ~start[d].hand[1][i].shown

----------------------------------------------------------------------------
Init ==
    /\ \E start \in Starts : world = start
    /\ session = [d \in Duels |-> NewSession]
    /\ moves = 0

(* The engine moves both duels: as player 0 sees it, by the same move.      *)
Move ==
    /\ moves < MaxMoves
    /\ \E a \in EngineMoves(world[1]), b \in EngineMoves(world[2]) :
          /\ a.seen = b.seen
          /\ world' = <<a.field, b.field>>
          /\ session' = <<Ingest(session[1], a.told, me, moves + 1),
                          Ingest(session[2], b.told, me, moves + 1)>>
    /\ moves' = moves + 1

Spec == Init /\ [][Move]_vars

----------------------------------------------------------------------------
Cards(w) == UNION {ToSet(Queried(w)[n]) : n \in DOMAIN Queried(w)}

(* Player 0 is asked for one of the cards on the field, those in its hand   *)
(* and those of the opponent's that stay revealed.                          *)
Candidates(w) ==
    {[code |-> q.card.code, controller |-> q.controller, location |-> q.location,
      sequence |-> q.sequence]
     : q \in {q \in Cards(w) : \/ q.location \in {"mzone", "szone"}
                               \/ q.location = "hand" /\ (q.controller = me \/ q.card.shown)}}

Asked(w) == <<[kind |-> Word("card_selection"), player |-> me, cards |-> Candidates(w)]>>

Observed(d) == Observe(world[d], me, session[d], Asked(world[d]))

(* What everything that is sorted when it is written comes to. *)
Settled(v) ==
    [v EXCEPT !.zones = ToSet(@), !.entities = ToSet(@), !.relationships = ToSet(@)]

(* Duels that differ only in what the player may not know look the same to  *)
(* it: no field of the safe state, no event, and no reference of the        *)
(* decision tells the hidden cards of one from those of the other, over any *)
(* sequence of moves, though their messages and queries name every card     *)
(* (docs/DETERMINISM_AND_INFORMATION_SAFETY.md: two worlds that differ only *)
(* in hidden information).                                                  *)
Alike(a, b) == Settled(SafeView(a)) = Settled(SafeView(b)) /\ a.context = b.context
HidesWhatIsHidden ==
    \A shown \in {[d \in Duels |-> Observed(d)]} : Alike(shown[1], shown[2])

(* What the builder makes is never refused by the validators behind it:     *)
(* locators and event numbers are unique however many cards are alike and   *)
(* however the messages arrived, and what is hidden has no identity.        *)
AlwaysPublishable == \A d \in Duels : Writable(SafeView(Observed(d)))

MayKnow(q) == q.card.owner = me \/ q.card.up \/ q.card.shown
Like(entities, q, code) ==
    Cardinality({i \in DOMAIN entities :
        /\ entities[i].controller = <<q.controller>> /\ entities[i].zone = q.zone
        /\ entities[i].code = code})

(* Of the cards of the player's and zone of q. *)
ToldOf(entities, alike, q) ==
    IF MayKnow(q)
    THEN Like(entities, q, <<q.card.code>>)
            = Cardinality({r \in alike : MayKnow(r) /\ r.card.code = q.card.code})
    ELSE q.zone \in {Hand, ExtraDeck} \/
         Like(entities, q, <<>>) = Cardinality({r \in alike : ~MayKnow(r)})

Told(entities, cards) ==
    \A q \in cards :
        ToldOf(entities, {r \in cards : r.controller = q.controller /\ r.zone = q.zone}, q)

(* A material is there once, under its number; its code is told if the card *)
(* that holds it may be known.                                              *)
MaterialTold(entities, q, j) ==
    \E i \in DOMAIN entities :
        /\ {n \in DOMAIN entities :
               /\ entities[n].zone = Overlay /\ entities[n].controller = <<q.controller>>
               /\ entities[n].sequence = <<q.sequence>> /\ entities[n].overlay = <<j - 1>>} = {i}
        /\ entities[i].code = Given(MayKnow(q), q.card.materials[j].code)

MaterialsTold(entities, cards) ==
    \A q \in cards : \A j \in DOMAIN q.card.materials : MaterialTold(entities, q, j)

(* The count of the materials is that of their entities, known and not.     *)
UnderCards(entities, p, known) ==
    Cardinality({i \in DOMAIN entities :
        /\ entities[i].zone = Overlay /\ entities[i].controller = <<p>>
        /\ entities[i].known \in known})

MaterialsCounted(entities, zones) ==
    \A i \in DOMAIN zones :
        zones[i].kind = Overlay =>
            /\ zones[i].total = UnderCards(entities, zones[i].player, BOOLEAN)
            /\ zones[i].public = UnderCards(entities, zones[i].player, {TRUE})
            /\ zones[i].hidden = UnderCards(entities, zones[i].player, {FALSE})

(* A player is told every card it may know: its own outside of the deck,    *)
(* those face up and those shown, each with its code, as often as it is     *)
(* there; of the others on the field and in the piles it is told that they  *)
(* are there.  The materials of a card it may know are told with their      *)
(* codes, those of another as hidden ones, and the counts of the zone agree *)
(* (mechanics_projection_test.cpp: "visible Xyz material entities disagreed *)
(* with aggregate overlay visibility").                                     *)
TellsWhatIsKnown ==
    \A d \in Duels :
        \A o \in {Observed(d)} :
            /\ Told(o.entities, Cards(world[d]))
            /\ MaterialsTold(o.entities, Cards(world[d]))
            /\ MaterialsCounted(o.entities, o.zones)

============================================================================
