-------------------------- MODULE MCGameplayEvaluation --------------------------
(***************************************************************************)
(* GameplayEvaluation with both profiles.  Three duels have decisions: a    *)
(* longer one with a decision of each player that ends in any way, and two  *)
(* in which one player decides; the rest end without one, or run out of     *)
(* budget.  What a provider can do wrong is what it can send.               *)
(***************************************************************************)
EXTENDS GameplayEvaluation

Offer(keysOffered) == [keys |-> keysOffered, finals |-> {}, continuation |-> FALSE]
ToDecide(player, request, work) ==
    [over |-> FALSE, player |-> player, request |-> request, work |-> work,
     winner |-> None, views |-> None]
Over(winner, work) ==
    [over |-> TRUE, player |-> None, request |-> None, work |-> work,
     winner |-> winner, views |-> "v"]
Spec(seed, mirror, starting) == [seed |-> seed, mirror |-> mirror, starting |-> starting]

Long ==
    <<>> :> ToDecide(0, Offer(<<"b", "a">>), 1)
    @@ <<"a">> :> ToDecide(1, Offer(<<"x", "y">>), 2)
    @@ <<"b">> :> Over(2, 2)
    @@ <<"a", "x">> :> Over(0, 3) @@ <<"a", "y">> :> ToDecide(0, Offer(<<"c">>), 3)
    @@ <<"a", "y", "c">> :> Over(1, 4)
MCGame ==
    [spec \in {Spec(seed, mirror, starting) :
                   seed \in {1, 2}, mirror \in BOOLEAN, starting \in {0, 1}} |->
        CASE spec = Spec(1, FALSE, 0) -> Long
          [] spec = Spec(1, TRUE, 1) ->
                <<>> :> ToDecide(1, Offer(<<"u">>), 1) @@ <<"u">> :> Over(1, 2)
          [] spec = Spec(2, FALSE, 1) -> <<>> :> Over(2, 7)
          [] spec = Spec(2, TRUE, 0) -> <<>> :> Over(2, 1)
          [] OTHER -> <<>> :> Over(0, 1)]

MCDecks == 0 :> "swordsoul" @@ 1 :> "salamangreat"
MCControl == [process |-> 5, actions |-> 4]
MCKeyRank == [k \in {"a", "b", "c", "u", "x", "y"} |->
                CASE k = "a" -> 1 [] k = "b" -> 2 [] k = "c" -> 3 [] k = "u" -> 4
                  [] k = "x" -> 5 [] OTHER -> 6]
(* The last candidate of the long duel is a card the vocabulary lacks.      *)
MCEncodable(request) == request.keys # <<"c">>

Contract(kind, identity) ==
    [kind |-> kind, identity |-> identity, capabilities |-> None, descriptor |-> None]
MCRegistry ==
    {Contract("producer", "teacher_core"), Contract("producer", "bc"), Contract("rng", NoRng)}
    \cup {Contract(kind, "c") : kind \in {"inference", "observation", "action"}}
    \cup {Contract("checkpoint", c) : c \in {"smoke", "trained"}}
    \cup {Contract("metadata", Decks[i]) : i \in {0, 1}}
    \cup {[Contract("sampling", "argmax") EXCEPT
             !.capabilities = [complete |-> TRUE, deterministic |-> TRUE]]}

CheckpointOf(profile) == IF profile = Implementation THEN "smoke" ELSE "trained"
MCProfiles == {Implementation, Meaningful}

(* The exact context, and contexts with one thing changed, their identities *)
(* made to fit.                                                             *)
Refit(c) ==
    LET corpus == [c EXCEPT !.corpus = CorpusIdentity(c)]
        evaluation == [corpus EXCEPT !.evaluation = EvaluationIdentity(corpus)]
    IN  [evaluation EXCEPT !.jobManifest = ManifestIdentity(evaluation)]
MCContexts(profile) ==
    LET exact == MakeContext(profile, CheckpointOf(profile))
    IN  {exact, [exact EXCEPT !.checkpoint = "smoke"], [exact EXCEPT !.corpus = <<>>],
         Refit([exact EXCEPT !.jobs = Front(@)]),
         Refit([exact EXCEPT !.jobs[2] = exact.jobs[1]]),
         Refit([exact EXCEPT !.jobs[1] = exact.jobs[2], !.jobs[2] = exact.jobs[1]]),
         Refit([exact EXCEPT !.jobs[3].opponent = Teacher("swordsoul")])}

(* Proper answers by every ranking of the candidates; and answers of the    *)
(* wrong kind: to the request before, of another model, with a score too    *)
(* few or no number, with another choice, tampered with, or none at all.    *)
MCAnswers(request, earlier) ==
    LET n == Len(request.domain)
        proper == {Response(request, scores) : scores \in [1..n -> {0, 1}]}
        one == Response(request, [i \in 1..n |-> 1])
        Resealed(r) == [r EXCEPT !.identity = ResponseContent(r)]
    IN  proper \cup {None}
        \cup (IF earlier = None THEN {}
              ELSE {Response(earlier, [i \in DOMAIN earlier.domain |-> 1])})
        \cup {Resealed([one EXCEPT !.request = [@ EXCEPT !.decision = None]]),
              Resealed([one EXCEPT !.checkpoint = "other"]),
              Resealed([one EXCEPT !.scores = Append(@, 0), !.count = @ + 1]),
              Resealed([one EXCEPT !.scores = [@ EXCEPT ![1] = NotFinite]]),
              Resealed([one EXCEPT !.ordinal = n + 1]),
              Resealed([one EXCEPT !.key = "z"]),
              [one EXCEPT !.key = None],
              [one EXCEPT !.scores = [@ EXCEPT ![1] = 0]]}
================================================================================
