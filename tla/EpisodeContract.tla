--------------------------- MODULE EpisodeContract ---------------------------
(***************************************************************************)
(* What the episodic environment promises its caller, without a driver, an  *)
(* engine or an identity: offers are made one at a time, each under a token *)
(* that was never used before, an offer is answered at most once, and every *)
(* call ends with a new offer or with the end of the episode.               *)
(***************************************************************************)
EXTENDS Naturals, Sequences

CONSTANTS
    Token,      \* submission tokens
    Ending,     \* the ways an episode may end
    NoOffer     \* none of the tokens

VARIABLES
    phase,      \* "empty", "working" inside a call, "offering" or an ending
    offer,      \* the token that may be answered
    offered,    \* tokens offered so far
    answered    \* tokens answered, in the order of their answers

contractVars == <<phase, offer, offered, answered>>

Init ==
    /\ phase = "empty"
    /\ offer = NoOffer
    /\ offered = {}
    /\ answered = <<>>

(* reset: an episode may begin only when none is under way. *)
Begin ==
    /\ phase \in {"empty"} \cup Ending
    /\ phase' = "working"
    /\ UNCHANGED <<offer, offered, answered>>

(* step: the pending offer is answered, and cannot be answered again. *)
Answer ==
    /\ phase = "offering"
    /\ phase' = "working"
    /\ offer' = NoOffer
    /\ answered' = Append(answered, offer)
    /\ UNCHANGED offered

(* interrupt: the pending offer is withdrawn unanswered. *)
Withdraw ==
    /\ phase = "offering"
    /\ phase' = "working"
    /\ offer' = NoOffer
    /\ UNCHANGED <<offered, answered>>

MakeOffer(t) ==
    /\ phase = "working"
    /\ t \notin offered
    /\ phase' = "offering"
    /\ offer' = t
    /\ offered' = offered \cup {t}
    /\ UNCHANGED answered

(* A call ends the episode; a reset may also fail at once. *)
End(e) ==
    /\ phase # "offering"
    /\ phase' = e
    /\ UNCHANGED <<offer, offered, answered>>

Next ==
    \/ Begin
    \/ Answer
    \/ Withdraw
    \/ \E t \in Token : MakeOffer(t)
    \/ \E e \in Ending : End(e)

Safety == Init /\ [][Next]_contractVars

----------------------------------------------------------------------------
(* Every call returns, with an offer or with an ending. *)
CallsReturn == phase = "working" ~> phase \in {"offering"} \cup Ending

============================================================================
