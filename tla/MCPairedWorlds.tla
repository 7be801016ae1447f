---------------------------- MODULE MCPairedWorlds ----------------------------
(* Two duels of the same public history: the opponent's hand, set cards,    *)
(* deck and deck list hold the cards 1 and 2 in different places.           *)
EXTENDS PairedWorlds

MCProperties(code) == [before |-> <<code>>, markers |-> <<>>, after |-> <<>>, counters |-> <<>>]
MCBefore(a, b) == Earlier(a[1][2], b[1][2])

Empty(slots) == [s \in slots |-> <<>>]

(* The field: an own face-up monster, an own card in hand, and what the     *)
(* opponent has, of which only the places and the extra deck's face-up card *)
(* are known.                                                               *)
Field(hand, set, top, own) ==
    [hand |-> (0 :> <<Card(1, 0)>>) @@ (1 :> [i \in DOMAIN hand |-> Card(hand[i], 1)]),
     monsters |-> (0 :> [Empty(MonsterSlots) EXCEPT ![0] = <<Upwards(Card(2, 0))>>])
                  @@ (1 :> [Empty(MonsterSlots) EXCEPT ![0] = <<Card(set, 1)>>]),
     spells |-> (0 :> Empty(SpellSlots)) @@ (1 :> [Empty(SpellSlots) EXCEPT ![1] = <<Card(set, 1)>>]),
     grave |-> (0 :> <<>>) @@ (1 :> <<Upwards(Card(2, 1))>>),
     banished |-> (0 :> <<>>) @@ (1 :> <<>>),
     extra |-> (0 :> <<Card(3, 0), Card(3, 0)>>) @@ (1 :> <<Card(3, 1), Upwards(Card(4, 1))>>),
     deck |-> (0 :> <<own>>) @@ (1 :> <<top>>),
     chain |-> <<>>, lp |-> (0 :> 8) @@ (1 :> 8),
     list |-> (0 :> <<1, 2>>) @@ (1 :> <<set, top>>)]

(* The fixtures of m2_1_xyz_api_test.cpp and mechanics_projection_test.cpp  *)
(* in one: a face-down card of the opponent's with two materials, of which  *)
(* one is player 0's, and open ones of both players with theirs.            *)
Holding(c, materials) == [c EXCEPT !.materials = materials]
WithMaterials(w, host, first, second) ==
    [w EXCEPT
        !.monsters[0][0] = <<Upwards(Holding(Card(3, 0), <<Card(2, 1), Card(1, 0)>>))>>,
        !.monsters[1] =
            [@ EXCEPT ![0] = <<Holding(Card(host, 1), <<Card(first, 1), Card(second, 0)>>)>>,
                      ![1] = <<Upwards(Holding(Card(4, 1), <<Card(1, 1)>>))>>]]

MCStarts ==
    {<<Field(<<1, 2>>, 1, 1, 2), Field(<<2, 1>>, 2, 2, 2)>>,
     <<WithMaterials(Field(<<1>>, 1, 1, 2), 3, 1, 2),
       WithMaterials(Field(<<2>>, 2, 2, 2), 4, 2, 1)>>,
     <<WithMaterials(Field(<<1>>, 1, 1, 2), 3, 1, 2),
       WithMaterials(Field(<<2>>, 2, 2, 2), 3, 1, 2)>>}

============================================================================
