----------------------------- MODULE PublicRequest -----------------------------
(***************************************************************************)
(* What the environment publishes of a decision request, in both versions n *)
(* of its contract: every candidate by a public description and the key     *)
(* made of it, cards by the locator the observer knows them by.             *)
(***************************************************************************)
EXTENDS MessageDecoder, DecisionRequest

(* resolve_observation_card: the one entity of the observation the card can *)
(* be, if there is exactly one.  An entity has a sequence if its place in    *)
(* the zone shows.                                                          *)
CouldBe(entity, card) ==
    /\ entity.controller = card.controller
    /\ IF card.location = 0 THEN entity.known /\ entity.code = card.code
       ELSE /\ entity.zone = card.location
            /\ entity.sequence = <<>> \/ entity.sequence[1] = card.sequence
            /\ entity.known => entity.code = card.code

Resolve(entities, card) ==
    IF card.code = 0 \/ card.controller > 1 THEN {}
    ELSE {entity \in entities : CouldBe(entity, card)}

(* project_card_reference *)
Reference(entities, card) ==
    IF Cardinality(Resolve(entities, card)) # 1 THEN <<>>
    ELSE LET entity == CHOOSE e \in Resolve(entities, card) : TRUE
         IN  <<[kind |-> IF entity.known THEN 0 ELSE 1, locator |-> entity.locator]>>

(* project_choice *)
PublicChoice(r, c) ==
    CASE c.kind = "yes_no" ->
            <<[kind |-> IF r.message = "select_effectyn" THEN EffectYesNo ELSE YesNo,
               value |-> c.value[1], response |-> <<>>]>>
      [] c.kind = "option" -> <<[kind |-> OptionValue, value |-> c.value[1], response |-> c.choice]>>
      [] c.kind = "announcement" /\ r.message = "announce_number" ->
            <<[kind |-> AnnouncementNumber, value |-> c.value[1], response |-> c.choice]>>
      [] c.kind \in {"idle_command", "battle_command", "chain"} /\ c.choice # <<>> ->
            <<[kind |-> EffectChoice, value |-> c.choice[1], response |-> <<>>]>>
      [] OTHER -> <<>>

(* safe_key_shape: the first parts of an internal key belong to its family. *)
SafeKey(r, c) ==
    IF r.continuation # <<>>
    THEN /\ c.within = r.continuation[1].id /\ c.key[1] = c.within
         /\ c.key[2] \in (CASE c.kind = "pick" -> {"pick"} [] c.kind = "assign_amount" -> {"amount"}
                            [] c.kind = "finish" -> {"finish"} [] c.kind = "cancel" -> {"cancel", "bypass"})
    ELSE /\ c.within = <<>>
         /\ c.key[1] \in (CASE c.kind = "card_selection" -> {"card", "unselect"}
                            [] c.kind = "announcement" -> {"announce_number", "announce_mask"}
                            [] c.kind = "finish" -> {"unselect"} [] c.kind = "cancel" -> {"card", "unselect"}
                            [] OTHER -> {c.kind})

Indexed(r, c) ==
    \/ c.kind \in {"card_selection", "place", "pick", "assign_amount"}
    \/ c.kind = "announcement" /\ r.message # "announce_number"

(* project_candidate *)
PublicCandidate(n, r, c, entities) ==
    LET only(condition, value) == IF condition THEN <<value>> ELSE <<>>
        described ==
            [kind |-> Word(c.kind), selection |-> IF n = 2 THEN c.selection ELSE NoSelection,
             choice |-> PublicChoice(r, c), source |-> Reference(entities, c.card),
             target |-> <<>>,
             phase |-> only(c.kind \in {"idle_command", "battle_command", "chain"}, c.phase),
             position |-> only(c.kind = "position", c.position),
             index |-> only(Indexed(r, c), c.index),
             amount |-> only(c.kind = "assign_amount", c.amount),
             operation |-> IF c.operation = NoOperation THEN <<>> ELSE Word(c.operation),
             submits |-> c.submits]
    IN  described @@ ("key" :> Key(n, described))

(* project_continuation *)
PublicView(v) ==
    [kind |-> Word(v.kind)] @@
    [f \in {"step", "selected", "remaining", "amounts", "min", "max", "target", "required",
            "available", "mask", "steps", "exact", "greater", "finish", "cancel"} |-> v[f]]

(* The request of project_frame; the frame is refused when a candidate has  *)
(* no public key, two have the same, or an internal key is of another       *)
(* family.                                                                  *)
PublicRequest(n, r, entities) ==
    LET candidates ==
            [i \in DOMAIN r.candidates |-> PublicCandidate(n, r, r.candidates[i], entities)]
    IN  IF \/ ~ValidCandidateSet(r) \/ ~UniqueKeys(candidates)
           \/ \E i \in DOMAIN candidates :
                 ~SafeKey(r, r.candidates[i]) \/ ~Keyable(n, candidates[i])
        THEN Refusal("public_frame_invariant")
        ELSE [kind |-> Word(r.kind), player |-> r.player, candidates |-> candidates,
              continuation |-> IF r.continuation = <<>> THEN <<>>
                               ELSE <<PublicView(r.continuation[1])>>]

============================================================================
