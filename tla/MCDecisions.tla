------------------------------ MODULE MCDecisions ------------------------------
(* Small messages of every family, well formed and not, and an observation  *)
(* that knows one card, sees one it does not know and cannot tell two apart. *)
EXTENDS Decisions

Card(code, controller, location, sequence) ==
    [code |-> code, controller |-> controller, location |-> location, sequence |-> sequence]
Hand == 2
Mine == Card(1, 0, MZone, 0)
Hidden == Card(3, 1, SZone, 1)
Held == Card(2, 0, Hand, 0)
Shown == Card(1, 0, 0, 0)

Entity(card, sequence, known, locator) ==
    [controller |-> card.controller, zone |-> card.location, sequence |-> sequence,
     known |-> known, code |-> IF known THEN card.code ELSE 0, locator |-> Word(locator)]
MCEntities ==
    {Entity(Mine, <<0>>, TRUE, "m0"), Entity(Hidden, <<1>>, FALSE, "s1"),
     Entity(Held, <<>>, TRUE, "h0"), Entity(Held, <<>>, TRUE, "h1")}

Lists(set, n) == UNION {[1..k -> set] : k \in 0..n}
Hands == {<<Mine>>, <<Held, Held>>, <<Mine, Hidden, Held>>, <<Held, Mine, Held, Shown>>}

Ask(type, fields) == [type |-> type, player |-> 0, whole |-> TRUE] @@ fields

Lone ==
    {Ask("select_idlecmd", [lists |-> <<<<Mine, Held>>, l, <<>>, <<Held>>, <<>>, <<Mine, Mine>>>>,
                            battle |-> b, end |-> TRUE, shuffle |-> b])
        : l \in {<<>>, <<Held, Held>>}, b \in BOOLEAN}
    \cup {Ask("select_battlecmd", [lists |-> l, main2 |-> b, end |-> ~b])
        : l \in {<<<<>>, <<>>>>, <<<<Mine>>, <<Mine, Held>>>>}, b \in BOOLEAN}
    \cup {Ask(t, [card |-> c]) : t \in {"select_yesno", "select_effectyn"}, c \in {NoCard, Mine, Held}}
    \cup {Ask("select_position", [code |-> 1, positions |-> p]) : p \in 0..15}
    \cup {Ask("select_chain", [forced |-> f, cards |-> c]) : f \in BOOLEAN, c \in Hands \cup {<<>>}}
    \cup {Ask(t, [values |-> v]) : t \in {"select_option", "announce_number"}, v \in Lists({4, 9}, 3)}
    \cup {Ask("select_unselect_card", [finishable |-> f, cancelable |-> c, selected |-> s, unselected |-> u])
        : f \in BOOLEAN, c \in BOOLEAN, s \in Hands \cup {<<>>}, u \in {<<>>, <<Mine, Held>>}}

Selections ==
    {Ask("select_card", [cancelable |-> c, min |-> min, max |-> max, cards |-> cards])
        : c \in BOOLEAN, min \in 0..3, max \in 1..4, cards \in Hands \cup {<<>>}}
Tributes ==
    {Ask("select_tribute", [cancelable |-> c, min |-> min, max |-> max,
                            items |-> [i \in DOMAIN values |-> <<Mine, values[i], 0>>]])
        : c \in BOOLEAN, min \in 0..4, max \in 0..3, values \in Lists({1, 2}, 3)}

Levels == {<<Mine, 1, 0>>, <<Held, 2, 0>>, <<Mine, 4, 3>>}
Sums ==
    {Ask("select_sum", [mode |-> r[1], target |-> target, min |-> r[2], max |-> r[3],
                        mandatory |-> mandatory, items |-> items])
        : r \in {<<0, 1, 1>>, <<0, 1, 3>>, <<0, 2, 3>>, <<0, 2, 2>>, <<0, 0, 2>>, <<1, 0, 0>>},
          target \in {3, 5, 6}, mandatory \in {<<>>, <<<<Held, 2, 0>>>>},
          items \in Lists(Levels, 3) \ {<<>>}}

Places ==
    {[Ask(t, [count |-> n, occupied |-> (0..31) \ free]) EXCEPT !.player = p]
        : t \in {"select_place", "select_disfield"}, n \in 0..3, p \in {0, 1},
          free \in {{}, {0, 7}, {6, 8, 15}, {5, 15, 16, 31}}}
Counters ==
    {Ask("select_counter", [required |-> n, items |-> [i \in DOMAIN c |-> <<Mine, c[i]>>]])
        : n \in 0..4, c \in Lists({0, 2, 3}, 3) \cup {<<1, Base^2 \div 2>>}}
Orders ==
    {Ask(t, [cards |-> [i \in 1..n |-> Held]]) : t \in {"sort_card", "sort_chain"}, n \in 0..5}
Masks ==
    {Ask("announce_race", [count |-> n, bits |-> b]) : n \in 0..3, b \in {<<>>, <<2>>, <<0, 7, 20, 23>>}}
    \cup {Ask("announce_attrib", [count |-> n, bits |-> b]) : n \in 0..3, b \in {<<0, 1>>, <<3, 4, 11>>}}

Messages == Lone \cup Selections \cup Tributes \cup Sums \cup Places \cup Counters \cup Orders \cup Masks

(* One message of each type, for what does not depend on its contents.      *)
OneOfEach == {CHOOSE m \in Messages : m.type = t : t \in {m.type : m \in Messages}}
Says(type) == Ask(type, <<>>)
MCBatches ==
    {<<m>> : m \in Messages}
    \cup {<<Says("hint"), m>> : m \in OneOfEach}
    \cup {<<[m EXCEPT !.whole = FALSE]>> : m \in OneOfEach \cup {Says("win")}}
    \cup {<<m, m>> : m \in OneOfEach}
    \cup {<<Says(t)>> : t \in {"hint", "win", "retry", "announce_card"}}
MCInformative == {"hint"}

============================================================================
