------------------------------ MODULE MCCollection ------------------------------
(***************************************************************************)
(* Collection with two duels: a longer one with a continuation and a draw   *)
(* of three, and a short one in the mirrored seats.  The work of a turn is  *)
(* the number of process calls up to it.                                    *)
(***************************************************************************)
EXTENDS Collection

Atomic(offered) == [keys |-> offered, finals |-> {}, continuation |-> FALSE]
Continued(offered, finals) == [keys |-> offered, finals |-> finals, continuation |-> TRUE]
ToDecide(player, request, work) ==
    [over |-> FALSE, player |-> player, request |-> request, work |-> work,
     winner |-> None, views |-> None]
Over(winner, work) ==
    [over |-> TRUE, player |-> None, request |-> None, work |-> work,
     winner |-> winner, views |-> "v"]

Long == [starting |-> 0, mirror |-> FALSE]
Short == [starting |-> 1, mirror |-> TRUE]

MCGame ==
    Long :> (<<>> :> ToDecide(0, Atomic(<<"a", "b", "c">>), 2)
             @@ <<"a">> :> ToDecide(1, Continued(<<"x", "y">>, {"y"}), 3)
             @@ <<"a", "x">> :> ToDecide(1, Continued(<<"z">>, {"z"}), 3)
             @@ <<"a", "y">> :> Over("first", 5) @@ <<"a", "x", "z">> :> Over("second", 4)
             @@ <<"b">> :> Over("draw", 4) @@ <<"c">> :> Over("second", 3))
    @@ Short :> (<<>> :> ToDecide(1, Atomic(<<"a">>), 2) @@ <<"a">> :> Over("first", 3))

MCLineups == {<<Long>>, <<Short, Short>>}

MCDecks == 0 :> "blue" @@ 1 :> "red"
MCControls == {[process |-> 9, actions |-> 9], [process |-> 9, actions |-> 1],
               [process |-> 3, actions |-> 9], [process |-> 1, actions |-> 9]}

----------------------------------------------------------------------------
Contract(kind) == [kind |-> kind, identity |-> "c", capabilities |-> None, descriptor |-> None]
SamplingOf(name, deterministic) ==
    [kind |-> "sampling", identity |-> name, descriptor |-> None,
     capabilities |-> [complete |-> TRUE, deterministic |-> deterministic]]
Rng == "sha256_counter"
MCRegistry ==
    {Contract(kind) : kind \in {"producer", "inference", "observation", "action"}}
    \cup {SamplingOf("uniform", FALSE), SamplingOf("best", TRUE)}
    \cup {[kind |-> "rng", identity |-> Rng, capabilities |-> None,
           descriptor |-> [canonicalStates |-> FALSE, uniqueCursor |-> TRUE]],
          [kind |-> "rng", identity |-> NoRng, capabilities |-> None, descriptor |-> None]}

Policy(kind, sampling, rng) ==
    [kind |-> kind, sampling |-> sampling, rng |-> rng, producer |-> "c", inference |-> "c",
     observation |-> "c", action |-> "c", checkpoint |-> None, search |-> None,
     demonstration |-> None, metadata |-> None]
RandomLegal == Policy("random_legal", "uniform", Rng)
Heuristic == Policy("heuristic", "best", NoRng)

Assignment(spec, player, artifact, epoch, from) ==
    [player |-> player, artifact |-> artifact, role |-> DeckIndex(spec, player),
     deck |-> Decks[DeckIndex(spec, player)], seat |-> Seat(spec, player),
     epoch |-> epoch, from |-> from]
Roster(assignments, bound) ==
    [provenance |-> [artifacts |-> {a.artifact : a \in assignments}, assignments |-> assignments],
     sessions |-> bound]

Drawing(spec) ==
    LET a == [player \in {0, 1} |-> Assignment(spec, player, RandomLegal, 0, 0)]
    IN  Roster(Range(a), [player \in {0, 1} |-> Binding(a[player], "root", "legal")])
(* The heuristic of player 1 is replaced before decision 2. *)
Judging(spec) ==
    Roster({Assignment(spec, 0, Heuristic, 0, 0), Assignment(spec, 1, Heuristic, 0, 0),
            Assignment(spec, 1, Heuristic, 1, 2)}, None)
(* A single bad roster: the second epoch takes effect with the first. *)
Clashing(spec) ==
    Roster({Assignment(spec, 0, Heuristic, 0, 0), Assignment(spec, 1, Heuristic, 0, 0),
            Assignment(spec, 1, Heuristic, 1, 0)}, None)
MCRosters(spec) ==
    IF spec = Short THEN {Drawing(spec)} ELSE {Drawing(spec), Judging(spec), Clashing(spec)}

----------------------------------------------------------------------------
OtherSpec(spec) == IF spec = Long THEN Short ELSE Long
AlteredRecord(r) ==
    {[r EXCEPT !.key = k] : k \in Range(r.frame.request.keys)}
    \cup {[r EXCEPT !.class = c] : c \in {"atomic", "intermediate", "final"}}
    \cup {[r EXCEPT !.successor = s] : s \in {"frame", "terminal", "interrupted"}}
    \cup {[r EXCEPT !.frame.player = 1 - @], [r EXCEPT !.frame.index = @ + 1],
          [r EXCEPT !.frame.request.keys = Reverse(@)], [r EXCEPT !.target = None],
          [r EXCEPT !.rng.mode = "none"]}
Cleaned(r, m) ==
    [r EXCEPT !.rng = NoDraw(CHOOSE a \in Active(m.provenance, r.frame.player, r.frame.index) : TRUE,
                             r.frame.index)]

MCAltered(e) ==
    ({[e EXCEPT !.manifest.rejections = 0], [e EXCEPT !.manifest.environment = "other"],
     [e EXCEPT !.manifest.episode = OtherSpec(@)],
     [e EXCEPT !.records = IF @ = <<>> THEN @ ELSE Front(@)],
     [e EXCEPT !.records = IF @ = <<>> THEN @ ELSE Append(@, Last(@))],
     [e EXCEPT !.closure.count = @ + 1], [e EXCEPT !.closure.pending = None],
     [e EXCEPT !.closure = InterruptedClosure(@.count, None)],
     [e EXCEPT !.records = [i \in DOMAIN @ |-> Cleaned(@[i], e.manifest)]]}
    \cup (IF e.closure.kind # "terminal" THEN {}
          ELSE {[e EXCEPT !.closure.winner = w] : w \in {"none", "first", "draw"}}
               \cup {[e EXCEPT !.closure.views = "w"], [e EXCEPT !.closure.last = None]})
    \cup UNION {{[e EXCEPT !.records[i] = r] : r \in AlteredRecord(e.records[i])} :
                    i \in DOMAIN e.records})
    \ {e}

MCAlteredEvidence(x) ==
    IF x = None THEN {}
    ELSE {None, [x EXCEPT !.episode = OtherSpec(@)], [x EXCEPT !.counted = @ + 1],
          [x EXCEPT !.step = @ + 1], [x EXCEPT !.processes = @ + 1],
          [x EXCEPT !.process = @ + 1], [x EXCEPT !.actions = @ + 1]}
         \cup {[x EXCEPT !.reason = r] :
                  r \in {"process_budget", "action_budget", "administrative_cancel"} \ {x.reason}}
================================================================================
