---------------------------- MODULE CheckpointPolicy ----------------------------
(***************************************************************************)
(* The policy under evaluation: a frozen checkpoint behind an inference     *)
(* provider.  For every frame it asks the provider for a score of every     *)
(* candidate and takes the best; whatever the provider answers, only an     *)
(* answer to this very request is used.                                     *)
(***************************************************************************)
EXTENDS Recording, Integers

CONSTANTS
    KeyRank,        \* the byte order of public action keys
    NotFinite,      \* a score that is no number
    Encodable(_)    \* whether the vocabulary has every card of a request

(* A failure: the stage it is reported for, and its code; or none.          *)
Fails(stage, code) == [stage |-> stage, code |-> code]
NoFailure == Fails(None, None)
FrameInvalid == Fails("public_frame", "PUBLIC_FRAME_INVALID")
InputInvalid == Fails("model_input", "MODEL_INPUT_INVALID")
InferenceFailed == Fails("inference", "INFERENCE_FAILURE")
ResponseInvalid == Fails("inference", "INFERENCE_RESPONSE_INVALID")
SelectionInvalid == Fails("selection", "SELECTION_INVALID")

(* The frame is this participant's, and its candidates are told apart.      *)
FrameFits(frame, participant) ==
    /\ frame.player = participant
    /\ frame.request.keys # <<>>
    /\ \A k, l \in DOMAIN frame.request.keys :
          frame.request.keys[k] = frame.request.keys[l] => k = l

(* canonical_inference_request_bytes *)
InferenceRequest(checkpoint, frame) ==
    [checkpoint |-> checkpoint, input |-> frame.request, domain |-> frame.request.keys,
     decision |-> frame, perspective |-> frame.player, index |-> frame.index]

Finite(scores) == \A i \in DOMAIN scores : scores[i] # NotFinite

(* Mutant: of equal scores the last one counts. *)
BestLast(scores, keys) ==
    LET upTo[i \in 1..Len(scores)] ==
            IF i = 1 THEN 1 ELSE IF scores[i] >= scores[upTo[i - 1]] THEN i ELSE upTo[i - 1]
    IN  upTo[Len(scores)]

(* selected_score_ordinal: the highest score, and of equal ones the         *)
(* candidate whose key comes first.                                         *)
Best(scores, keys) ==
    LET Beats(i, best) ==
            \/ scores[i] > scores[best]
            \/ scores[i] = scores[best] /\ KeyRank[keys[i]] < KeyRank[keys[best]]
        upTo[i \in 1..Len(scores)] ==
            IF i = 1 THEN 1 ELSE IF Beats(i, upTo[i - 1]) THEN i ELSE upTo[i - 1]
    IN  upTo[Len(scores)]

(* make_inference_response *)
Response(request, scores) ==
    LET chosen == Best(scores, request.domain)
        content == [request |-> request, checkpoint |-> request.checkpoint,
                    input |-> request.input, domain |-> request.domain,
                    count |-> Len(scores), scores |-> scores, ordinal |-> chosen,
                    key |-> request.domain[chosen]]
    IN  content @@ [identity |-> content]

(* What every value of a response's type has: scores that are numbers.      *)
IsAnswer(answer) == answer # None => answer.scores \in Seq(Int \cup {NotFinite})

(* What the identity of a response is computed from. *)
ResponseContent(response) == [f \in DOMAIN response \ {"identity"} |-> response[f]]

(* validate_inference_response_binding.  A key that is none is left to the  *)
(* selection stage, with the identity it belongs to.                        *)
Binds(request, response) ==
    /\ response.request = request
    /\ response.checkpoint = request.checkpoint
    /\ response.input = request.input
    /\ response.domain = request.domain
    /\ response.count = Len(response.scores) /\ response.count > 0
    /\ Len(response.scores) = Len(request.domain)
    /\ Finite(response.scores)
    /\ response.key # None => response.identity = ResponseContent(response)

Selects(request, response) ==
    /\ response.ordinal \in DOMAIN request.domain
    /\ request.domain[response.ordinal] = response.key
    /\ Best(response.scores, request.domain) = response.ordinal

(* select, up to the answer of the provider: None if it gives none.  What   *)
(* it fails with, if it does.                                               *)
SelectFailure(checkpoint, participant, pending, frame, answer) ==
    LET request == InferenceRequest(checkpoint, frame)
    IN  CASE pending # None -> InferenceFailed
          [] pending = None /\ ~FrameFits(frame, participant) -> FrameInvalid
          [] pending = None /\ FrameFits(frame, participant) /\ ~Encodable(frame.request) ->
                InputInvalid
          [] OTHER ->
                IF answer = None THEN InferenceFailed
                ELSE IF ~Binds(request, answer) THEN ResponseInvalid
                ELSE IF ~Selects(request, answer) THEN SelectionInvalid
                ELSE NoFailure

Proposal(frame, key) == [decision |-> frame, key |-> key]
================================================================================
