---------------------------- MODULE MessageDecoder ----------------------------
(***************************************************************************)
(* The messages of the engine, and the decision requests they become.       *)
(*                                                                          *)
(* A message m is the record of the fields of its frame; m.whole says       *)
(* whether the frame is as long as they are, which ByteReader finds out      *)
(* while it reads and when it finishes.                                     *)
(***************************************************************************)
EXTENDS Continuation

CONSTANTS MZone, SZone,   \* LOCATION_MZONE, LOCATION_SZONE
          Informative     \* is_known_noninteractive: the messages that ask nothing

Request(kind, m) ==
    [kind |-> kind, player |-> m.player, message |-> m.type, hash |-> m, id |-> <<>>,
     candidates |-> <<>>, continuation |-> <<>>]

(* validate_candidate_set *)
ValidCandidateSet(r) ==
    /\ r.candidates # <<>> /\ UniqueKeys(r.candidates)
    /\ \A i \in DOMAIN r.candidates :
          LET c == r.candidates[i]
          IN  /\ CompleteCandidate(c)
              /\ IF r.kind = "unselect_card" /\ c.kind = "card_selection"
                 THEN c.selection \in {1, 2} ELSE c.selection = 0

(* What an atomic decoder returns, and finalize_request makes of it.        *)
Atomic(kind, m, candidates) ==
    LET r == [Request(kind, m) EXCEPT !.candidates = candidates, !.id = <<m, "decision">>]
    IN  IF ~m.whole THEN Refusal("malformed_message")
        ELSE IF ValidCandidateSet(r) THEN r ELSE Refusal("incomplete_candidates")

(* A request that starts a continuation.                                    *)
Starting(kind, m, v) ==
    IF ~m.whole THEN Refusal("malformed_message") ELSE MakeRequest(kind, m.player, m.type, v)

Each(seq, Candidate(_, _)) == [i \in DOMAIN seq |-> Candidate(i - 1, seq[i])]
Placed(c) == <<c.code, c.controller, c.location, c.sequence>>
Given(condition, candidate) == IF condition THEN <<candidate>> ELSE <<>>

----------------------------------------------------------------------------
(* The two halves of a command's answer. *)
CommandWord(command, index) == Little(2, command) \o Little(2, index)

(* add_idle_card, add_battle_card; and the commands without a card.         *)
CardCommand(kind, command, index, card) ==
    [Blank EXCEPT !.kind = kind, !.key = <<kind, command, index>> \o Placed(card),
                  !.card = card, !.phase = command, !.index = index, !.choice = <<index>>,
                  !.response = CommandWord(command, index)]
PhaseCommand(kind, command) ==
    [Blank EXCEPT !.kind = kind, !.key = <<kind, command, 0>>, !.phase = command,
                  !.response = EncodeInt(command)]

Commands(kind, lists) ==
    FlattenSeq([n \in DOMAIN lists |->
        Each(lists[n], LAMBDA index, card : CardCommand(kind, n - 1, index, card))])

DecodeIdle(m) ==   \* m.lists: summon, special, reposition, set, spell, activate
    Atomic("idle_command", m,
        Commands("idle_command", m.lists)
        \o Given(m.battle, PhaseCommand("idle_command", 6))
        \o Given(m.end, PhaseCommand("idle_command", 7))
        \o Given(m.shuffle, PhaseCommand("idle_command", 8)))

DecodeBattle(m) ==   \* m.lists: activate, attack
    Atomic("battle_command", m,
        Commands("battle_command", m.lists)
        \o Given(m.main2, PhaseCommand("battle_command", 2))
        \o Given(m.end, PhaseCommand("battle_command", 3)))

DecodeYesNo(m) ==
    Atomic("yes_no", m,
        [n \in 1..2 |->
            [Blank EXCEPT !.kind = "yes_no", !.key = <<"yes_no", n - 1>>, !.value = <<n - 1>>,
                          !.card = m.card, !.response = EncodeInt(n - 1)]])

DecodePosition(m) ==   \* face-up or face-down, attack or defence: the bits 1, 2, 4, 8
    LET offered == SelectSeq(<<1, 2, 4, 8>>, LAMBDA p : (m.positions \div p) % 2 = 1)
    IN  Atomic("position", m,
            [n \in DOMAIN offered |->
                [Blank EXCEPT !.kind = "position", !.key = <<"position", m.code, offered[n]>>,
                              !.value = <<offered[n]>>, !.position = offered[n],
                              !.card = [NoCard EXCEPT !.code = m.code],
                              !.response = EncodeInt(offered[n])]])

DecodeChain(m) ==
    LET link(index, card) ==
            [Blank EXCEPT !.kind = "chain", !.key = <<"chain", 0, index>> \o Placed(card),
                          !.choice = <<index>>, !.card = card, !.response = EncodeInt(index)]
        pass == [Blank EXCEPT !.kind = "chain", !.key = <<"chain", "pass">>, !.phase = 1,
                              !.response = MinusOne]
    IN  Atomic("chain", m, Each(m.cards, link) \o Given(~m.forced, pass))

DecodeOption(m) ==
    LET option(index, value) ==
            [Blank EXCEPT !.kind = "option", !.key = <<"option", index, value>>,
                          !.value = <<value>>, !.choice = <<index>>, !.phase = index,
                          !.response = EncodeInt(index)]
    IN  IF m.values = <<>> THEN Refusal("unsupported_decision")
        ELSE Atomic("option", m, Each(m.values, option))

DecodeAnnounceNumber(m) ==
    LET number(index, value) ==
            [Blank EXCEPT !.kind = "announcement", !.key = <<"announce_number", index, value>>,
                          !.value = <<value>>, !.choice = <<index>>, !.phase = index,
                          !.response = EncodeInt(index)]
    IN  Atomic("announcement", m, Each(m.values, number))

(* Mutant: the cards that can still be selected are counted from zero. *)
UnselectIndexApart(m, operation, index) == index

(* combined_index: the selected cards come first. *)
UnselectIndex(m, operation, index) == IF operation = 2 THEN index ELSE Len(m.selected) + index

DecodeUnselect(m) ==
    LET toggle(operation, index, card) ==
            [Blank EXCEPT !.kind = "card_selection", !.selection = operation,
                          !.key = <<"unselect", operation, index>> \o Placed(card), !.card = card,
                          !.index = UnselectIndex(m, operation, index),
                          !.response = EncodeInt(1) \o EncodeInt(UnselectIndex(m, operation, index))]
        drop(index, card) == toggle(2, index, card)
        take(index, card) == toggle(1, index, card)
        over == IF m.finishable THEN "finish" ELSE "cancel"
    IN  Atomic("unselect_card", m,
            Each(m.selected, drop) \o Each(m.unselected, take)
            \o Given(m.finishable \/ m.cancelable,
                     [Blank EXCEPT !.kind = over, !.key = <<"unselect", over>>,
                                   !.response = MinusOne]))

----------------------------------------------------------------------------
CardItems(cards) == Each(cards, Item)
Valued(items) ==   \* <<card, value, second value>>
    Each(items, LAMBDA i, x : [Item(i, x[1]) EXCEPT !.value = x[2], !.second = x[3]])

DecodeCardSelection(m) ==
    LET v == [Fresh("unordered", m.type, m, CardItems(m.cards))
                EXCEPT !.min = m.min, !.max = m.max, !.cancel = m.cancelable]
        one(index, card) ==
            [Blank EXCEPT !.kind = "card_selection", !.key = <<"card", 0, index>> \o Placed(card),
                          !.card = card, !.index = index, !.response = EncodeCards(<<index>>)]
        cancel == [Blank EXCEPT !.kind = "cancel", !.key = <<"card", "cancel">>,
                                !.response = MinusOne]
    IN  IF m.cards = <<>> \/ m.min > m.max \/ m.max > Len(m.cards)
        THEN Refusal("malformed_message")
        ELSE IF m.min = 1 /\ m.max = 1
        THEN Atomic("card_selection", m, Each(m.cards, one) \o Given(m.cancelable, cancel))
        ELSE Starting("card_selection", m, v)

DecodeTribute(m) ==
    IF m.items = <<>> \/ m.max = 0 \/ m.min > m.max THEN Refusal("malformed_message")
    ELSE Starting("tribute", m,
            [Fresh("tribute", m.type, m, Valued(m.items))
                EXCEPT !.required = m.min, !.max = m.max, !.cancel = m.cancelable])

DecodeSum(m) ==
    IF m.mode > 1 THEN Refusal("unsupported_decision")
    ELSE IF m.items = <<>> THEN Refusal("malformed_message")
    ELSE Starting("sum", m,
            [Fresh("sum", m.type, m, Valued(m.items))
                EXCEPT !.mandatory = Valued(m.mandatory), !.target = m.target, !.min = m.min,
                       !.max = m.max, !.exact = m.mode = 0, !.greater = m.mode = 1])

(* decode_zone_items: a bit of the flag stands for a zone of one player;    *)
(* bits 7 and 23 stand for none.                                            *)
ZoneOf(player, bit) ==
    LET near == bit < 16
    IN  [code |-> 0, controller |-> IF near THEN player ELSE 1 - player,
         location |-> IF bit % 16 < 8 THEN MZone ELSE SZone, sequence |-> bit % 8]

ZoneItems(player, occupied) ==
    LET free == SetToSortSeq((0..31) \ ({7, 23} \cup occupied), <)
    IN  [i \in DOMAIN free |-> Item(free[i], ZoneOf(player, free[i]))]

DecodePlace(m) ==
    LET items == ZoneItems(m.player, m.occupied)
        place(x) ==
            [Blank EXCEPT !.kind = "place", !.card = x.card, !.index = x.index,
                          !.key = <<"place", x.card.controller, x.card.location, x.card.sequence>>,
                          !.response = EncodeZones(<<x.card>>)]
        v == [Fresh("zone", m.type, m, items) EXCEPT !.min = m.count, !.max = m.count]
    IN  IF m.count = 0 \/ m.count > Len(items) THEN Refusal("malformed_message")
        ELSE IF m.count = 1
        THEN Atomic("place", m, [i \in DOMAIN items |-> place(items[i])])
        ELSE Starting("place", m, v)

(* Mutant: the bytes of a counter's answer are taken as unsigned. *)
CapacityFitsUnsigned(capacity) == capacity < Base^2

(* What the two signed bytes of a counter's answer can hold. *)
CapacityFits(capacity) == capacity < Base^2 \div 2

DecodeCounter(m) ==   \* m.items: <<card, capacity>>
    LET items == Each(m.items, LAMBDA i, x : [Item(i, x[1]) EXCEPT !.capacity = x[2]])
    IN  IF m.items = <<>> THEN Refusal("malformed_message")
        ELSE IF \E x \in Range(items) : ~CapacityFits(x.capacity)
        THEN Refusal("unsupported_decision")
        ELSE IF m.required > Total(items, LAMBDA x : x.capacity)
        THEN Refusal("malformed_message")
        ELSE Starting("counter", m,
                [Fresh("counter", m.type, m, items) EXCEPT !.required = m.required])

DecodeOrdering(m) ==   \* the answer has a signed byte for each card
    IF m.cards = <<>> \/ Len(m.cards) > Base \div 2 THEN Refusal("unsupported_decision")
    ELSE Starting("ordering", m, Fresh("ordering", m.type, m, CardItems(m.cards)))

DecodeAnnounceMask(m) ==
    LET items == [i \in DOMAIN m.bits |-> Item(m.bits[i], NoCard)]
        mask(bits) == FoldSeq(LAMBDA bit, sum : 2^bit + sum, 0, bits)
        v == [Fresh("announce_mask", m.type, m, items)
                EXCEPT !.min = m.count, !.max = m.count, !.available = mask(m.bits)]
        announce(x) ==
            [Blank EXCEPT !.kind = "announcement", !.key = <<"announce_mask", x.index>>,
                          !.choice = <<x.index>>, !.index = x.index,
                          !.response = IF m.type = "announce_race" THEN Little(8, 2^x.index)
                                       ELSE Little(4, 2^x.index)]
    IN  IF m.count = 0 \/ m.count > Len(m.bits) THEN Refusal("malformed_message")
        ELSE IF m.count = 1
        THEN Atomic("announcement", m, [i \in DOMAIN items |-> announce(items[i])])
        ELSE Starting("announcement", m, v)

----------------------------------------------------------------------------
Decode(m) ==
    CASE m.type = "select_idlecmd" -> DecodeIdle(m)
      [] m.type = "select_battlecmd" -> DecodeBattle(m)
      [] m.type \in {"select_effectyn", "select_yesno"} -> DecodeYesNo(m)
      [] m.type = "select_position" -> DecodePosition(m)
      [] m.type = "select_chain" -> DecodeChain(m)
      [] m.type = "select_card" -> DecodeCardSelection(m)
      [] m.type = "select_option" -> DecodeOption(m)
      [] m.type = "select_tribute" -> DecodeTribute(m)
      [] m.type = "select_sum" -> DecodeSum(m)
      [] m.type \in {"select_place", "select_disfield"} -> DecodePlace(m)
      [] m.type = "select_counter" -> DecodeCounter(m)
      [] m.type \in {"sort_card", "sort_chain"} -> DecodeOrdering(m)
      [] m.type = "select_unselect_card" -> DecodeUnselect(m)
      [] m.type = "announce_number" -> DecodeAnnounceNumber(m)
      [] m.type \in {"announce_race", "announce_attrib"} -> DecodeAnnounceMask(m)
      [] OTHER -> Refusal("unsupported_decision")

(* decode_messages: a batch of frames, of which the first that cannot be    *)
(* decoded refuses them all.                                                *)
Decoded == [retry |-> FALSE, terminal |-> FALSE, decisions |-> <<>>]

Joined(d, r) == IF IsRefusal(r) THEN r ELSE [d EXCEPT !.decisions = Append(@, r)]

DecodeFrame(d, m) ==
    IF IsRefusal(d) THEN d
    ELSE CASE m.type = "retry" -> [d EXCEPT !.retry = TRUE]
           [] m.type = "win" -> IF m.whole THEN [d EXCEPT !.terminal = TRUE]
                                ELSE Refusal("malformed_message")
           [] m.type \in Informative -> d
           [] OTHER -> Joined(d, Decode(m))

DecodeMessages(batch) == FoldLeft(DecodeFrame, Decoded, batch)

============================================================================
