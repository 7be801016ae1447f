----------------------------- MODULE Continuation -----------------------------
(***************************************************************************)
(* A decision that takes several choices before the engine gets an answer.  *)
(* The frames of one continuation differ in what was selected or assigned   *)
(* so far; each offers the choices after which the selection can still be   *)
(* completed, and the answer once it is complete.  The searches of the code *)
(* for a completion are stated here as what they look for.                  *)
(***************************************************************************)
EXTENDS WireKinds, FiniteSets

(* The answers of the decision protocol, byte by byte, least byte first.    *)
Little(width, n) == [i \in 1..width |-> (n \div Base^(i - 1)) % Base]
MinusOne == Little(4, Base^4 - 1)

EncodeInt(n) == Little(4, n)
EncodeCards(indices) ==
    EncodeInt(0) \o Little(4, Len(indices))
    \o FlattenSeq([i \in DOMAIN indices |-> Little(4, indices[i])])
EncodeZones(zones) ==
    FlattenSeq([i \in DOMAIN zones |->
        <<zones[i].controller, zones[i].location, zones[i].sequence>>])
EncodeCounters(amounts) == FlattenSeq([i \in DOMAIN amounts |-> Little(2, amounts[i])])
EncodeOrder(indices) == [i \in DOMAIN indices |-> indices[i] % Base]
EncodeBypass == <<Base - 1>>

----------------------------------------------------------------------------
NoCard == [code |-> 0, controller |-> 0, location |-> 0, sequence |-> 0]
NoOperation == ""

(* ActionCandidate, as it is constructed; within is the continuation it is *)
(* offered in, value and choice are the typed metadata of a choice.         *)
Blank ==
    [kind |-> "idle_command", selection |-> 0, key |-> <<>>, card |-> NoCard, phase |-> 0,
     position |-> 0, index |-> 0, amount |-> -1, value |-> <<>>, choice |-> <<>>,
     within |-> <<>>, operation |-> NoOperation, submits |-> TRUE, response |-> <<>>]

(* A request, a request that was refused, and what is asked of both.        *)
Refusal(code) == [refused |-> code]
IsRefusal(r) == "refused" \in DOMAIN r

CompleteCandidate(c) == c.key # <<>> /\ (c.submits <=> c.response # <<>>)
UniqueKeys(candidates) ==
    \A i, j \in DOMAIN candidates : candidates[i].key = candidates[j].key => i = j

----------------------------------------------------------------------------
(* ContinuationItem *)
Item(index, card) ==
    [index |-> index, card |-> card, value |-> 0, second |-> 0, capacity |-> 0]

(* SelectionContinuation, as it is constructed.  A mask is a number, its    *)
(* bits are the source indices of the items.                                *)
Fresh(kind, message, hash, items) ==
    [kind |-> kind, message |-> message, hash |-> hash, items |-> items, mandatory |-> <<>>,
     id |-> <<>>, step |-> 0, steps |-> 0, selected |-> <<>>, remaining |-> <<>>,
     amounts |-> <<>>, min |-> 0, max |-> 0, target |-> 0, required |-> 0, available |-> 0,
     mask |-> 0, exact |-> TRUE, greater |-> FALSE, finish |-> FALSE, cancel |-> FALSE]

WellFormedItems(items) == \A i \in 2..Len(items) : items[i - 1].index < items[i].index

(* state_id *)
StateId(v) == <<v.hash, v.kind, v.step, v.selected, v.amounts, v.mask>>

----------------------------------------------------------------------------
Indices(items) == [i \in DOMAIN items |-> items[i].index]
ItemOf(v, index) == CHOOSE x \in Range(v.items) : x.index = index
Unselected(v) == SelectSeq(v.items, LAMBDA x : ~Contains(v.selected, x.index))
After(v, index) == {x \in Range(Unselected(v)) : x.index > index}
Total(items, Value(_)) == FoldSeq(LAMBDA x, sum : Value(x) + sum, 0, items)
Assigned(amounts) == FoldSeq(LAMBDA a, sum : a + sum, 0, amounts)
Ascending(items) == SetToSortSeq({x.index : x \in items}, <)

(* selected_items *)
Cards(v) == v.mandatory \o [i \in DOMAIN v.selected |-> ItemOf(v, v.selected[i])]

(* contribution_min, contribution_max *)
Least(x) == IF x.second > 0 /\ x.second < x.value THEN x.second ELSE x.value
Most(x) == IF x.second > x.value THEN x.second ELSE x.value

(* exact_sum_reachable: every card counts, each by one of its two values.   *)
RECURSIVE ExactSum(_, _)
ExactSum(cards, remaining) ==
    LET first == Head(cards)
        values == {first.value} \cup (IF first.second > 0 THEN {first.second} ELSE {})
    IN  /\ remaining > 0 /\ cards # <<>>
        /\ IF Len(cards) = 1 THEN remaining \in values
           ELSE \E value \in values :
                    remaining > value /\ ExactSum(Tail(cards), remaining - value)

(* greater_sum_legal: enough, and not without the least of the cards.       *)
GreaterSum(v) ==
    LET cards == Cards(v)
    IN  /\ cards # <<>>
        /\ Total(cards, Most) >= v.target
        /\ \A x \in Range(cards) : Total(cards, Least) - Least(x) < v.target

CardinalityTerminal(v) == Len(v.selected) \in v.min..v.max
TributeTerminal(v) ==
    /\ Len(v.selected) <= v.max
    /\ Total(Cards(v), LAMBDA x : x.value) >= v.required
SumTerminal(v) ==
    IF v.greater THEN GreaterSum(v)
    ELSE /\ CardinalityTerminal(v)
         /\ Cards(v) # <<>> /\ ExactSum(Cards(v), v.target)

(* can_finish, as each add_..._candidates computes it. *)
CanFinish(v) ==
    CASE v.kind \in {"unordered", "zone"} -> CardinalityTerminal(v)
      [] v.kind = "tribute" -> TributeTerminal(v)
      [] v.kind = "sum" -> SumTerminal(v)
      [] v.kind = "ordering" -> Unselected(v) = <<>>
      [] v.kind = "counter" -> Len(v.amounts) = Len(v.items) /\ Assigned(v.amounts) = v.required
      [] v.kind = "announce_mask" -> Len(v.selected) = v.min

----------------------------------------------------------------------------
(* cardinality_can_complete_after, tribute_can_complete_after and           *)
(* sum_can_complete_after: some of the later items complete the selection.  *)
CardinalityCompletes(v, index) ==
    LET count == Len(v.selected) + 1
    IN  count <= v.max /\ count + Cardinality(After(v, index)) >= v.min

Completes(v, index, Terminal(_)) ==
    \E more \in SUBSET After(v, index) :
        Terminal([v EXCEPT !.selected = Append(@, index) \o Ascending(more)])

CanComplete(v, index) ==
    CASE v.kind = "tribute" -> Completes(v, index, TributeTerminal)
      [] v.kind = "sum" -> Completes(v, index, SumTerminal)
      [] OTHER -> CardinalityCompletes(v, index)

(* The items a selection can go on with: selections are ascending.          *)
Monotone(v, x) ==
    /\ v.selected = <<>> \/ x.index > Last(v.selected)
    /\ v.kind = "announce_mask" => Len(v.selected) < v.min
    /\ CanComplete(v, x.index)

----------------------------------------------------------------------------
Offer(v, kind, operation, x, key) ==
    [Blank EXCEPT !.kind = kind, !.operation = operation, !.key = <<v.id, operation>> \o key,
                  !.card = x.card, !.index = x.index, !.choice = <<x.index>>,
                  !.within = v.id, !.submits = FALSE]
Pick(v, x) == Offer(v, "pick", "pick", x, <<x.index>>)
Assign(v, x, amount) ==
    [Offer(v, "assign_amount", "amount", x, <<x.index, amount>>)
        EXCEPT !.amount = amount, !.value = <<amount>>]
Ending(v, kind, operation, response) ==
    [Blank EXCEPT !.kind = kind, !.operation = operation, !.key = <<v.id, operation>>,
                  !.within = v.id, !.response = response]

(* terminal_response *)
TerminalResponse(v) ==
    CASE v.kind \in {"unordered", "tribute", "sum"} -> EncodeCards(v.selected)
      [] v.kind = "zone" ->
            EncodeZones([i \in DOMAIN v.selected |-> ItemOf(v, v.selected[i]).card])
      [] v.kind = "counter" -> EncodeCounters(v.amounts)
      [] v.kind = "ordering" -> EncodeOrder(v.selected)
      [] v.kind = "announce_mask" ->
            IF v.message = "announce_race" THEN Little(8, v.mask) ELSE Little(4, v.mask)

(* Mutant: what the later items can still give is not looked at. *)
AmountsUpToOwed(v) ==
    {a \in 0..v.items[Len(v.amounts) + 1].capacity : a <= v.required - Assigned(v.amounts)}

(* The amounts the current counter item may give.                           *)
Amounts(v) ==
    LET at == Len(v.amounts) + 1
        owed == v.required - Assigned(v.amounts)
        later == Total(SubSeq(v.items, at + 1, Len(v.items)), LAMBDA x : x.capacity)
    IN  {a \in 0..v.items[at].capacity : a <= owed /\ owed - a <= later}

FinishAndCancel(v) ==
    (IF v.finish THEN <<Ending(v, "finish", "finish", TerminalResponse(v))>> ELSE <<>>)
    \o (IF v.cancel THEN <<Ending(v, "cancel", "cancel", MinusOne)>> ELSE <<>>)

(* add_candidates: the choices of a frame whose remaining and finish are up *)
(* to date.                                                                 *)
Selectable(v) ==
    LET picks(items) == [i \in DOMAIN items |-> Pick(v, items[i])]
        assigned == Len(v.amounts)
    IN  CASE v.kind = "ordering" ->
                picks(Unselected(v)) \o <<Ending(v, "cancel", "bypass", EncodeBypass)>>
          [] v.kind = "counter" ->
                IF assigned = Len(v.items) THEN <<>>
                ELSE LET amounts == SetToSortSeq(Amounts(v), <)
                     IN  [i \in DOMAIN amounts |-> Assign(v, v.items[assigned + 1], amounts[i])]
          [] OTHER -> picks(SelectSeq(Unselected(v), LAMBDA x : Monotone(v, x)))

(* Mutant: the items of a counter remain after they were given an amount. *)
RemainingUnselected(v) == Indices(Unselected(v))

RemainingOf(v) ==
    IF v.kind = "counter" THEN Indices(SubSeq(v.items, Len(v.amounts) + 1, Len(v.items)))
    ELSE Indices(Unselected(v))

Framed(v) ==
    [v EXCEPT !.id = StateId(v), !.steps = v.step, !.finish = CanFinish(v),
              !.remaining = RemainingOf(v)]

(* make_continuation_request *)
MakeRequest(kind, player, message, v) ==
    LET frame == Framed(v)
        candidates == Selectable(frame) \o FinishAndCancel(frame)
    IN  IF \/ ~WellFormedItems(v.items) \/ candidates = <<>> \/ ~UniqueKeys(candidates)
           \/ \E i \in DOMAIN candidates : ~CompleteCandidate(candidates[i])
        THEN Refusal("incomplete_candidates")
        ELSE [kind |-> kind, player |-> player, message |-> message, hash |-> v.hash,
              id |-> <<frame.id, "decision">>, candidates |-> candidates,
              continuation |-> <<frame>>]

----------------------------------------------------------------------------
(* What a choice that does not end the continuation changes. *)
Advance(v, c) ==
    LET next == [v EXCEPT !.step = @ + 1]
    IN  CASE v.kind = "counter" -> [next EXCEPT !.amounts = Append(@, c.amount)]
          [] v.kind = "announce_mask" ->
                [next EXCEPT !.selected = Append(@, c.index), !.mask = @ + 2^c.index]
          [] OTHER -> [next EXCEPT !.selected = Append(@, c.index)]

(* What apply_continuation_action still checks of an offered choice.        *)
Fits(v, c) ==
    IF v.kind = "counter"
    THEN /\ c.kind = "assign_amount" /\ Len(v.amounts) < Len(v.items)
         /\ v.items[Len(v.amounts) + 1].index = c.index /\ c.amount \in Amounts(v)
    ELSE /\ c.kind = "pick"
         /\ c.index \in Range(Indices(v.items)) /\ ~Contains(v.selected, c.index)
         /\ v.kind # "ordering" => v.selected = <<>> \/ c.index > Last(v.selected)

(* apply_continuation_action: the next frame, or the answer for the engine. *)
Apply(request, key) ==
    LET v == request.continuation[1]
        found == SelectSeq(request.candidates, LAMBDA c : c.key = key)
        c == found[1]
    IN  IF request.continuation = <<>> \/ found = <<>> \/ c.within # v.id
        THEN Refusal("invalid_semantic_key")
        ELSE IF c.kind \in {"finish", "cancel"} THEN [answer |-> c.response]
        ELSE IF ~Fits(v, c) THEN Refusal("invalid_semantic_key")
        ELSE MakeRequest(request.kind, request.player, request.message, Advance(v, c))

============================================================================
