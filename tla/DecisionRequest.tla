---------------------------- MODULE DecisionRequest ----------------------------
(***************************************************************************)
(* The rules a recorded decision request obeys, in both versions n of the   *)
(* trajectory contract: what a candidate may be, what a continuation may    *)
(* publish of itself, and which candidates go with which continuation.      *)
(***************************************************************************)
EXTENDS PublicAction, FiniteSets

CONSTANT MaskWidth   \* the bits of an announcement mask (64)

ASSUME MaskAssumption == MaskWidth \in Nat /\ 2^MaskWidth = Base^8

Words(names) == {Word(name) : name \in names}

ActionKinds ==
    Words({"idle_command", "battle_command", "chain", "option", "card_selection", "announcement",
           "place", "position", "yes_no", "pick", "finish", "cancel", "assign_amount"})
DecisionKinds ==
    Words({"idle_command", "battle_command", "chain", "option", "card_selection", "tribute", "sum",
           "place", "counter", "ordering", "announcement", "unselect_card", "position", "yes_no"})

Operations ==
    {<<>>} \cup Words({"pick", "amount", "finish", "cancel", "bypass"})
ContinuationKinds ==
    Words({"unordered", "tribute", "sum", "zone", "counter", "ordering", "announce_mask"})
Unordered == ContinuationKinds \ {Word("counter"), Word("ordering")}
UnselectCard == Word("unselect_card")

Strictly(numbers) == \A i \in 2..Len(numbers) : numbers[i - 1] < numbers[i]
Bits(mask) == {i \in 0..(MaskWidth - 1) : (mask \div 2^i) % 2 = 1}

----------------------------------------------------------------------------
(* validate_public_candidate, validate_v2_candidate *)
ValidCandidate(n, c) ==
    /\ c.kind \in ActionKinds /\ c.operation \in Operations
    /\ Keyable(n, c) /\ c.key = Key(n, c) /\ IsActionKey(n, c.key)

(* public_can_finish: whether the public view decides it, and how. *)
FinishIsPublic(v) == v.kind \notin {Word("tribute"), Word("sum")}

PublicCanFinish(v) ==
    CASE v.kind \in {Word("unordered"), Word("zone")} -> Len(v.selected) \in v.min..v.max
      [] v.kind = Word("ordering") -> v.remaining = <<>>
      [] v.kind = Word("counter") ->
            v.remaining = <<>> /\ FoldLeft(LAMBDA a, b : a + b, 0, v.amounts) = v.required
      [] v.kind = Word("announce_mask") -> Cardinality(Bits(v.mask)) = v.min

(* Greater-sum selection without a bound says so by a maximum of zero.      *)
Unbounded(v) == v.kind = Word("sum") /\ v.greater /\ v.max = 0

(* validate_continuation *)
ValidContinuation(v) ==
    /\ v.kind \in ContinuationKinds
    /\ v.exact # v.greater /\ (v.greater => v.kind = Word("sum"))
    /\ v.min <= v.max \/ Unbounded(v)
    /\ v.steps = v.step
    /\ Strictly(v.remaining) /\ (v.kind \in Unordered => Strictly(v.selected))
    /\ v.kind = Word("counter") => v.selected = <<>>
    /\ v.kind # Word("counter") => v.amounts = <<>>
    /\ \A i, j \in DOMAIN v.selected : v.selected[i] = v.selected[j] => i = j
    /\ Range(v.selected) \cap Range(v.remaining) = {}
    /\ v.kind \in Unordered /\ ~Unbounded(v) =>
          v.max >= (IF v.kind = Word("announce_mask") THEN Cardinality(Bits(v.mask))
                    ELSE Len(v.selected))
    /\ v.kind = Word("announce_mask") =>
          /\ Range(v.selected) = Bits(v.mask)
          /\ Bits(v.mask) \subseteq Bits(v.available)
          /\ Range(v.remaining) = Bits(v.available) \ Bits(v.mask)
    /\ FinishIsPublic(v) => v.finish = PublicCanFinish(v)

(* Which candidate a continuation may offer for which operation. *)
OperationFits(c, v) ==
    LET remains == c.index # <<>> /\ c.index[1] \in Range(v.remaining)
    IN  \/ /\ c.operation = Word("pick") /\ c.kind = Word("pick") /\ ~c.submits
           /\ v.kind # Word("counter") /\ remains
        \/ /\ c.operation = Word("amount") /\ c.kind = Word("assign_amount") /\ ~c.submits
           /\ v.kind = Word("counter") /\ remains /\ c.index[1] = v.remaining[1]
           /\ c.amount # <<>> /\ c.amount[1] >= 0
        \/ c.operation = Word("finish") /\ c.kind = Word("finish") /\ c.submits /\ v.finish
        \/ c.operation = Word("cancel") /\ c.kind = Word("cancel") /\ c.submits /\ v.cancel
        \/ /\ c.operation = Word("bypass") /\ c.kind = Word("cancel") /\ c.submits
           /\ v.kind = Word("ordering")

Offering(request, operation) ==
    SelectSeq(request.candidates, LAMBDA c : c.operation = Word(operation))

(* validate_request, validate_v2_request *)
ValidRequest(n, r) ==
    /\ r.kind \in DecisionKinds /\ r.player <= 1 /\ r.candidates # <<>>
    /\ \A i \in DOMAIN r.candidates :
          LET c == r.candidates[i]
          IN  /\ ValidCandidate(n, c)
              /\ n = 2 /\ c.kind = Word("card_selection") =>
                    (c.selection # NoSelection <=> r.kind = UnselectCard)
              /\ IF r.continuation = <<>> THEN c.operation = <<>> /\ c.submits
                 ELSE OperationFits(c, r.continuation[1])
    /\ \A i, j \in DOMAIN r.candidates :
          r.candidates[i].key = r.candidates[j].key => i = j
    /\ r.continuation # <<>> =>
          LET v == r.continuation[1]
          IN  /\ ValidContinuation(v)
              /\ v.kind = Word("ordering") =>
                    /\ Len(Offering(r, "bypass")) = 1
                    /\ LET picks == Offering(r, "pick")
                       IN  [i \in DOMAIN picks |-> picks[i].index[1]] = v.remaining
              /\ Len(Offering(r, "finish")) = (IF v.finish THEN 1 ELSE 0)
              /\ Len(Offering(r, "cancel")) = (IF v.cancel THEN 1 ELSE 0)
              /\ Len(Offering(r, "bypass")) <= 1

============================================================================
