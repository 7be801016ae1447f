----------------------------- MODULE Decisions -----------------------------
(***************************************************************************)
(* A decision from the engine's message to its answer: the driver decodes   *)
(* the batch the engine produced, the environment publishes the request,    *)
(* the policy chooses by public key, and either the next frame of the       *)
(* continuation is published or the answer is submitted.  First the         *)
(* engine's side: which answers a message allows, how the bytes of an       *)
(* answer are understood, and what a player meant who chose by public       *)
(* descriptions.  The engine itself is not in the repository: this is what  *)
(* its decision contract (docs/contracts/decision-protocol-v1.md) says of   *)
(* each message family, in terms of sets and not of searches.               *)
(***************************************************************************)
EXTENDS PublicRequest

CONSTANTS Batches,   \* the batches of messages the engine may produce
          Entities   \* what the acting player observes

VARIABLES batch,     \* the batch that was last processed
          request,   \* the request that awaits a choice; a refusal; or none
          chosen,    \* the public candidates chosen since the batch
          answer     \* what was submitted to the engine; empty before

vars == <<batch, request, chosen, answer>>

----------------------------------------------------------------------------
(* The engine's side of a decision. *)

Selecting == {"select_card", "select_tribute", "select_sum"}
Masking == {"announce_race", "announce_attrib"}
Sorting == {"sort_card", "sort_chain"}
Placing == {"select_place", "select_disfield"}
Commanding == {"select_idlecmd", "select_battlecmd"}

Sum(f) == FoldFunction(LAMBDA a, b : a + b, 0, f)

(* The totals n cards can have, each counted by either of its values.       *)
TotalsOf(cards) ==
    {Sum(f) : f \in {g \in [DOMAIN cards -> UNION {{x[2], x[3]} : x \in Range(cards)}] :
                        \A i \in DOMAIN cards :
                            g[i] = cards[i][2] \/ (g[i] = cards[i][3] /\ g[i] > 0)}}

(* A selection of the items of m, by their indices from zero on.            *)
Chosen(m, s) == LET order == SetToSortSeq(s, <) IN [i \in DOMAIN order |-> m.items[order[i] + 1]]
SumAllows(m, s) ==
    LET cards == m.mandatory \o Chosen(m, s)
    IN  /\ cards # <<>>
        /\ IF m.mode = 0
           THEN Cardinality(s) \in m.min..m.max /\ m.target \in TotalsOf(cards)
           ELSE /\ Max(TotalsOf(cards)) >= m.target
                /\ \A i \in DOMAIN cards : Min(TotalsOf(RemoveAt(cards, i))) < m.target

Allows(m, s) ==
    CASE m.type = "select_card" -> Cardinality(s) \in m.min..m.max
      [] m.type = "select_tribute" ->
            Cardinality(s) <= m.max /\ Sum([i \in s |-> m.items[i + 1][2]]) >= m.min
      [] m.type = "select_sum" -> SumAllows(m, s)

FreeBits(m) == (0..31) \ (m.occupied \cup {7, 23})
Positions(seq) == 0..(Len(seq) - 1)

(* The answers m allows, each as the choices it is made of, in the order in *)
(* which they are offered: sets are chosen in ascending order.              *)
Routes(m) ==
    LET orders(sets) == {SetToSortSeq(s, <) : s \in sets}
    IN  CASE m.type \in Selecting ->
                LET n == IF m.type = "select_card" THEN Len(m.cards) ELSE Len(m.items)
                IN  orders({s \in SUBSET (0..(n - 1)) : Allows(m, s)})
          [] m.type \in Placing -> orders({s \in SUBSET FreeBits(m) : Cardinality(s) = m.count})
          [] m.type \in Masking -> orders({s \in SUBSET Range(m.bits) : Cardinality(s) = m.count})
          [] m.type \in Sorting -> SetToSeqs(Positions(m.cards))
          [] m.type = "select_counter" ->
                {a \in [DOMAIN m.items -> 0..Max({x[2] : x \in Range(m.items)})] :
                    Sum(a) = m.required /\ \A i \in DOMAIN a : a[i] <= m.items[i][2]}

(* The options of a message that is answered by naming one of them.         *)
Options(m) ==
    CASE m.type \in Commanding ->
            UNION {{<<n - 1, i>> : i \in Positions(m.lists[n])} : n \in DOMAIN m.lists}
            \cup (IF m.end THEN {IF m.type = "select_idlecmd" THEN <<7, 0>> ELSE <<3, 0>>} ELSE {})
            \cup (IF m.type = "select_idlecmd"
                  THEN (IF m.battle THEN {<<6, 0>>} ELSE {}) \cup (IF m.shuffle THEN {<<8, 0>>} ELSE {})
                  ELSE IF m.main2 THEN {<<2, 0>>} ELSE {})
      [] m.type \in {"select_effectyn", "select_yesno"} -> {<<0>>, <<1>>}
      [] m.type = "select_position" -> {<<p>> : p \in {q \in {1, 2, 4, 8} : (m.positions \div q) % 2 = 1}}
      [] m.type = "select_chain" -> {<<i>> : i \in Positions(m.cards)} \cup (IF m.forced THEN {} ELSE {<<-1>>})
      [] m.type \in {"select_option", "announce_number"} -> {<<i>> : i \in Positions(m.values)}
      [] m.type = "select_unselect_card" ->
            {<<1, i>> : i \in Positions(m.selected \o m.unselected)}
            \cup (IF m.finishable \/ m.cancelable THEN {<<-1>>} ELSE {})
      [] m.type \in Selecting \cup Placing \cup Masking \cup {"select_counter"} -> Routes(m)
      [] m.type \in Sorting -> Routes(m) \cup {<<-1>>}

(* A cancelled selection is not among the answers it allows. *)
CanCancel(m) == m.type \in {"select_card", "select_tribute"} /\ m.cancelable

----------------------------------------------------------------------------
(* How the engine reads an answer to m. *)
Value(bytes) == Sum([i \in DOMAIN bytes |-> bytes[i] * Base^(i - 1)])
Signed(bytes) == IF bytes = MinusOne THEN -1 ELSE Value(bytes)
Part(bytes, n, width) == SubSeq(bytes, (n - 1) * width + 1, n * width)
Parts(bytes, width, From(_)) == [n \in 1..(Len(bytes) \div width) |-> From(Part(bytes, n, width))]

Reads(m, bytes) ==
    CASE m.type \in Commanding -> Parts(bytes, 2, Value)
      [] m.type \in Selecting ->
            IF Signed(Part(bytes, 1, 4)) = -1 THEN <<-1>> ELSE Tail(Tail(Parts(bytes, 4, Signed)))
      [] m.type \in Placing ->
            Parts(bytes, 3, LAMBDA z : CHOOSE bit \in FreeBits(m) :
                <<ZoneOf(m.player, bit).controller, ZoneOf(m.player, bit).location, bit % 8>> = z)
      [] m.type \in Masking -> SetToSortSeq({bit \in Range(m.bits) : (Value(bytes) \div 2^bit) % 2 = 1}, <)
      [] m.type \in Sorting -> IF bytes[1] >= Base \div 2 THEN <<-1>> ELSE bytes
      [] m.type = "select_counter" -> Parts(bytes, 2, Value)
      [] OTHER -> Parts(bytes, 4, Signed)

(* What was chosen, told from the public candidates alone: the choices in   *)
(* the order they were made.  The answer to an unselect message also says   *)
(* on which side the card is.                                               *)
Meant(m, choices) ==
    LET last == Last(choices)
        ends == last.kind \in {Word("cancel"), Word("finish")}
        picked == [i \in DOMAIN choices |-> choices[i].index]
        made(field(_)) ==
            LET kept == SelectSeq(choices, LAMBDA c : field(c) # <<>>)
            IN  [i \in DOMAIN kept |-> field(kept[i])[1]]
    IN  CASE m.type \in Commanding ->
                <<last.phase[1], IF last.choice = <<>> THEN 0 ELSE last.choice[1].value>>
          [] m.type \in {"select_effectyn", "select_yesno"} -> <<last.choice[1].value>>
          [] m.type = "select_position" -> last.position
          [] m.type = "select_chain" -> IF last.choice = <<>> THEN <<-1>> ELSE <<last.choice[1].value>>
          [] m.type \in {"select_option", "announce_number"} -> last.choice[1].response
          [] m.type = "select_unselect_card" ->
                IF ends THEN <<-1>>
                ELSE IF last.selection = (IF last.index[1] < Len(m.selected) THEN 2 ELSE 1)
                THEN <<1>> \o last.index ELSE <<>>
          [] m.type = "select_counter" -> made(LAMBDA c : c.amount)
          [] last.kind = Word("cancel") -> <<-1>>
          [] OTHER -> made(LAMBDA c : c.index)

----------------------------------------------------------------------------
None == [none |-> TRUE]
Awaiting == "kind" \in DOMAIN request

(* process: a batch that asks exactly once is published. *)
Asked(d) ==
    IF IsRefusal(d) THEN d
    ELSE IF d.retry THEN Refusal("retry")
    ELSE IF d.terminal \/ d.decisions = <<>> THEN None
    ELSE IF Len(d.decisions) # 1 THEN Refusal("unsupported_decision")
    ELSE d.decisions[1]

Unless(refused, r) == IF IsRefusal(refused) THEN refused ELSE r
Published(r) ==
    IF "kind" \in DOMAIN r THEN Unless(PublicRequest(2, r, Entities), r) ELSE r

Init ==
    /\ batch = <<>> /\ request = None /\ chosen = <<>> /\ answer = <<>>

Process ==
    /\ request = None /\ batch = <<>>
    /\ batch' \in Batches
    /\ request' = Published(Asked(DecodeMessages(batch')))
    /\ UNCHANGED <<chosen, answer>>

(* The engine takes the answer, or was asking nothing, and goes on.         *)
Resume ==
    /\ request = None /\ batch # <<>>
    /\ batch' = <<>> /\ chosen' = <<>> /\ answer' = <<>>
    /\ UNCHANGED request

(* apply_semantic_key of the driver: an answer to submit, or a next frame.  *)
Continues(next) ==
    IF "answer" \in DOMAIN next
    THEN answer' = next.answer /\ request' = None
    ELSE request' = Published(next) /\ UNCHANGED answer

(* step: the i-th public candidate, by the internal one bound to it.        *)
Choose(i) ==
    LET c == request.candidates[i]
    IN  /\ chosen' = Append(chosen, PublicRequest(2, request, Entities).candidates[i])
        /\ Continues(IF request.continuation = <<>> THEN [answer |-> c.response]
                     ELSE Apply(request, c.key))
        /\ UNCHANGED batch

Act == Awaiting /\ \E i \in DOMAIN request.candidates : Choose(i)

Next == Process \/ Act \/ Resume

Spec == Init /\ [][Next]_vars

----------------------------------------------------------------------------
Question == SelectSeq(batch, LAMBDA m : m.type \notin Informative)
TheMessage == Question[1]

(* What the engine asks is never void, and its bounds are in order (the     *)
(* "pinned wire domain" of the decoder's errors); a counter and a position   *)
(* in an ordering fit the answer.                                           *)
InWireDomain(m) ==
    CASE m.type \in Placing \cup Masking -> m.count > 0
      [] m.type \in Sorting -> Len(m.cards) \in 1..(Base \div 2)
      [] m.type = "select_counter" ->
            m.items # <<>> /\ \A x \in Range(m.items) : x[2] < Base^2 \div 2
      [] m.type = "select_card" -> m.cards # <<>> /\ m.min <= m.max /\ m.max <= Len(m.cards)
      [] m.type = "select_tribute" -> m.items # <<>> /\ m.min <= m.max /\ m.max > 0
      [] OTHER -> TRUE

(* Every message of the batch is known and intact, exactly one asks, and it *)
(* has an answer.                                                           *)
Answerable ==
    /\ Len(Question) = 1 /\ TheMessage.whole
    /\ TheMessage.type \notin {"win", "retry", "announce_card"}
    /\ InWireDomain(TheMessage)
    /\ Options(TheMessage) # {} \/ CanCancel(TheMessage)
AsksNothing == Question = <<>> \/ (TheMessage.type = "win" /\ TheMessage.whole)

(* A decision that has an answer is never refused, at its first frame or at *)
(* a later one, and one that has none, is damaged or is one of several is   *)
(* never asked: a refusal ends the episode, so the guards of the decoders,  *)
(* the searches for a completion and the checks on the generated candidates *)
(* must agree on what can be answered.                                      *)
RefusesOnlyTheImpossible ==
    batch # <<>> =>
        /\ IsRefusal(request) <=> ~Answerable /\ ~AsksNothing
        /\ Awaiting => Answerable

(* A frame offers all that the engine's message still allows, and nothing   *)
(* else: an atomic request offers every option once; in a continuation the  *)
(* choices offered are those that lie on the way to an allowed answer, it   *)
(* can be finished exactly when it is one, and cancelled or bypassed where  *)
(* the message says so.  With it no legal set is lost to the ascending      *)
(* order, none is reached twice, and no choice leads to a dead end.         *)
OffersAreExact ==
    Awaiting =>
        LET m == TheMessage
            offered == request.candidates
            ends == {offered[i].operation : i \in DOMAIN offered}
        IN  IF request.continuation = <<>>
            THEN LET answers == [i \in DOMAIN offered |-> Reads(m, offered[i].response)]
                 IN  /\ Range(answers) =
                            Options(m) \cup (IF CanCancel(m) THEN {<<-1>>} ELSE {})
                     /\ \A i, j \in DOMAIN answers : answers[i] = answers[j] => i = j
            ELSE LET v == request.continuation[1]
                     way == IF v.kind = "counter" THEN v.amounts ELSE v.selected
                     ahead == {r \in Routes(m) : IsStrictPrefix(way, r)}
                     going == SelectSeq(offered, LAMBDA c : ~c.submits)
                 IN  /\ {IF v.kind = "counter" THEN going[i].amount ELSE going[i].index
                            : i \in DOMAIN going}
                            = {r[Len(way) + 1] : r \in ahead}
                     /\ "finish" \in ends <=> way \in Routes(m)
                     /\ "cancel" \in ends <=> CanCancel(m)
                     /\ "bypass" \in ends <=> m.type \in Sorting

(* The engine reads in the answer what the policy meant by the public       *)
(* descriptions it chose, and the message allows it: the position in a list *)
(* goes through a candidate, a public key and back, and through bytes whose *)
(* layout differs from family to family.                                    *)
EngineGetsTheChoice ==
    answer # <<>> =>
        LET read == Reads(TheMessage, answer)
        IN  /\ read = Meant(TheMessage, chosen)
            /\ read \in Options(TheMessage) \/ (read = <<-1>> /\ CanCancel(TheMessage))

(* Whatever is published, in either version of the contract, obeys the      *)
(* rules the trajectory's validator has for a recorded request: an episode  *)
(* that was played can be recorded.                                         *)
FramesCanBeRecorded ==
    Awaiting => \A n \in {1, 2} : \A frame \in {PublicRequest(n, request, Entities)} :
                    ~IsRefusal(frame) /\ ValidRequest(n, frame)

============================================================================
