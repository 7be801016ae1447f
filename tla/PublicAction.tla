------------------------------ MODULE PublicAction ------------------------------
(***************************************************************************)
(* The public identities of the environment contract, in both versions n:   *)
(* the key of an action, which is the hex of its canonical description and  *)
(* so can be read back; the digest of a candidate domain; the identity of a *)
(* decision.                                                                *)
(***************************************************************************)
EXTENDS WireKinds

Schema(n) == Versioned("public_action_identity", n)
KeyPrefix(n) == Versioned("public_action", n)
DomainSchema(n) == Versioned("public_candidate_domain", n)
DecisionSchema(n) == Versioned("public_semantic_decision_identity", n)

NoSelection == 0   \* PublicCardSelectionOperation::None; Select 1, Unselect 2
YesNo == 1
EffectYesNo == 2
EffectChoice == 3
OptionValue == 4
AnnouncementNumber == 5

----------------------------------------------------------------------------
(* What both the key and a recorded candidate say of an action. *)
PutChoice(c) == U(1, c.kind) \o U(8, c.value) \o Opt(c.response, LAMBDA r : U(4, r))
PutReference(r) == U(1, r.kind) \o Text(r.locator)

Described(c) ==
    Opt(c.choice, PutChoice) \o Opt(c.source, PutReference) \o Opt(c.target, PutReference)
    \o Opt(c.phase, LAMBDA p : U(4, p)) \o Opt(c.position, LAMBDA p : U(1, p))
    \o Opt(c.index, LAMBDA i : U(4, i)) \o Opt(c.amount, LAMBDA a : U(4, a))
    \o Text(c.operation)

(* The fields that describe it, for a reader that tells texts from bytes or *)
(* does not, and amounts from their bits or does not.                       *)
DescribedBy(text, amount) ==
    <<<<"choice", Maybe(Message(<<"choice", 0>>))>>,
      <<"source", Maybe(Message(<<"reference", 0>>))>>,
      <<"target", Maybe(Message(<<"reference", 0>>))>>,
      <<"phase", Maybe(UInt(4))>>, <<"position", Maybe(UInt(1))>>, <<"index", Maybe(UInt(4))>>,
      <<"amount", Maybe(amount)>>, <<"operation", text>>>>

ChoiceFields == <<<<"kind", UInt(1)>>, <<"value", UInt(8)>>, <<"response", Maybe(UInt(4))>>>>

ValidChoice(c) ==
    CASE c.kind \in {YesNo, EffectYesNo} -> c.value <= 1 /\ c.response = <<>>
      [] c.kind = EffectChoice -> c.value < Base^4 /\ c.response = <<>>
      [] c.kind \in {OptionValue, AnnouncementNumber} -> c.response # <<>>
      [] OTHER -> FALSE

ValidSelection(kind, selection) ==
    /\ selection <= 2
    /\ kind = Word("card_selection") \/ selection = NoSelection

----------------------------------------------------------------------------
(* canonical_public_action_key_bytes(_v2): what it refuses, what it writes. *)
Keyable(n, c) ==
    /\ IsToken(c.kind)
    /\ n = 2 => ValidSelection(c.kind, c.selection)
    /\ c.operation = <<>> \/ IsToken(c.operation)
    /\ \A reference \in {c.source, c.target} :
          reference # <<>> => reference[1].kind <= 1 /\ IsPrintable(reference[1].locator)
    /\ c.choice # <<>> => ValidChoice(c.choice[1])

KeyBytes(n, c) ==
    Text(Schema(n)) \o Text(Schema(n)) \o Text(c.kind)
    \o (IF n = 2 THEN U(1, c.selection) ELSE <<>>) \o Described(c)

Hex(bytes) == [i \in DOMAIN bytes |-> <<"hex", bytes[i]>>]
IsHex(cell) == Len(cell) = 2 /\ cell[1] = "hex"

(* Mutant: the key of the second version does not tell selecting from unselecting. *)
KeyWithoutSelection(n, c) ==
    KeyPrefix(n) \o Hex(KeyBytes(n, [c EXCEPT !.selection = NoSelection]))

Key(n, c) == KeyPrefix(n) \o Hex(KeyBytes(n, c))

(* is_canonical_public_action_bytes(_v2) *)
KeyLayout(name) ==
    CASE name[1] = "action" ->
            <<<<"", Only(Schema(name[2]))>>, <<"", Only(Schema(name[2]))>>, <<"kind", AnyBlob>>>>
            \o (IF name[2] = 2 THEN <<<<"selection", UInt(1)>>>> ELSE <<>>)
            \o DescribedBy(AnyBlob, UInt(4))
      [] name[1] = "choice" -> ChoiceFields
      [] name[1] = "reference" -> <<<<"kind", Code(1)>>, <<"locator", AnyBlob>>>>

KeyValid(name, v) ==
    CASE name[1] = "action" ->
            /\ IsToken(v.kind)
            /\ name[2] = 2 => ValidSelection(v.kind, v.selection)
            /\ v.operation = <<>> \/ IsToken(v.operation)
      [] name[1] = "choice" -> ValidChoice(v)
      [] name[1] = "reference" -> IsPrintable(v.locator)

K == INSTANCE Wire WITH Layout <- KeyLayout, Valid <- KeyValid

IsActionKey(n, key) ==
    /\ Len(key) > 1 /\ <<key[1]>> = KeyPrefix(n)
    /\ \A i \in 2..Len(key) : IsHex(key[i])
    /\ K!Accepted(<<"action", n>>, [i \in 1..(Len(key) - 1) |-> key[i + 1][2]]).ok

----------------------------------------------------------------------------
DomainDigest(n, kind, keys) ==
    Digest(Text(DomainSchema(n)) \o Text(kind) \o List(keys, Text))

DecisionId(n, episode, index, player, kind, observation, domain) ==
    Digest(Text(DecisionSchema(n)) \o Text(DecisionSchema(n)) \o Text(episode) \o U(8, index)
           \o U(1, player) \o Text(kind) \o Text(observation) \o Text(domain))

============================================================================
