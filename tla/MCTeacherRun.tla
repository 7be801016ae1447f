----------------------------- MODULE MCTeacherRun -----------------------------
(* A small profile with everything a plan depends on, and few decisions.     *)
EXTENDS TeacherRun, TLC

CONSTANTS open1, done1, node1, node2, line1,  \* what an observation may say
          lead, follow, rescue         \* what a candidate may be for

(* Goal 1 is urgent but conditional; its line 1 has node 2 after node 1,    *)
(* and an edge back to goal 2, whose line 2 shares node 1.                  *)
MCProfile ==
    [goals |-> <<[priority |-> 1, preconditions |-> {open1}, completion |-> {done1}, stop |-> {}],
                 [priority |-> 0, preconditions |-> {}, completion |-> {node2}, stop |-> {node2}]>>,
     lines |-> <<[goal |-> 1, applicability |-> {line1}, preference |-> 0,
                  nodes |-> [n \in {1, 2} |->
                               IF n = 1 THEN [intents |-> {lead}, completion |-> {node1}]
                               ELSE [intents |-> {follow}, completion |-> {node2}]],
                  dependencies |-> {<<1, 2>>}, recovery |-> {1}],
                 [goal |-> 2, applicability |-> {}, preference |-> 0,
                  nodes |-> [n \in {1} |-> [intents |-> {follow}, completion |-> {node1}]],
                  dependencies |-> {}, recovery |-> {}]>>,
     edges |-> <<[kind |-> "Line", source |-> 1, reasons |-> {"public_state_contradiction"},
                  preconditions |-> {}, intents |-> {rescue}, goal |-> 2, line |-> 2, cap |-> 1],
                 [kind |-> "Goal", source |-> 1, reasons |-> {"public_state_contradiction"},
                  preconditions |-> {open1}, intents |-> {rescue}, goal |-> 2, line |-> None,
                  cap |-> 2]>>]

Plain == (open1 :> "True" @@ done1 :> "False" @@ node1 :> "False" @@ node2 :> "False" @@
          line1 :> "True")

MCHolds ==
    {Plain,
     [Plain EXCEPT ![node1] = "True"],
     [Plain EXCEPT ![node2] = "True"],
     [Plain EXCEPT ![done1] = "True"],
     [Plain EXCEPT ![open1] = "False"],
     [Plain EXCEPT ![line1] = "Unsupported"],
     [Plain EXCEPT ![open1] = "Invalid"]}

For(intents, other) == [i \in {lead, follow, rescue} |-> IF i \in intents THEN "True" ELSE other]

Ask(player, chain, unselect, holds, candidates) ==
    [player |-> player,
     view |-> [chain |-> chain, unselect |-> unselect, holds |-> holds],
     candidates |-> candidates]

Domain(select) ==
    {[key |-> 1, select |-> FALSE, meets |-> For({}, "False")],
     [key |-> 2, select |-> select, meets |-> For({lead}, "False")],
     [key |-> 3, select |-> select, meets |-> For({follow, rescue}, "False")]}

Unclear == {[key |-> 2, select |-> FALSE, meets |-> For({}, "Unsupported")],
            [key |-> 3, select |-> FALSE, meets |-> For({lead}, "False")]}

MCDecisions ==
    {Ask(0, c, u, h, Domain(u)) : c \in 0..1, u \in BOOLEAN, h \in MCHolds}
    \cup {Ask(0, 0, FALSE, h, Unclear) : h \in MCHolds}
    \cup {Ask(1, c, FALSE, h, Domain(FALSE)) : c \in 0..1, h \in {Plain, [Plain EXCEPT ![node1] = "True"]}}

============================================================================
