------------------------------- MODULE PolicyRng -------------------------------
(***************************************************************************)
(* The random numbers of a policy: a counter of consumed raw words, each    *)
(* word a block digest's lane, and the choice below a bound that is drawn   *)
(* from them (src/src/policy/rng.cpp).  A word has Words values; the cursor *)
(* counts to MaxCursor, the greatest value of its type.                     *)
(***************************************************************************)
EXTENDS Naturals

CONSTANTS Words, MaxCursor, LanesPerBlock

(* Which lane of which block the word at a cursor is. *)
Source(cursor) == <<cursor \div LanesPerBlock, cursor % LanesPerBlock>>

Exhausted(cursor) == cursor = MaxCursor

(* Mutant: the incomplete last interval is not rejected. *)
ThresholdZero(n) == 0

(* Raw words below it would make the small choices likelier: -n mod 2^w     *)
(* mod n.                                                                   *)
Threshold(n) == ((Words - n) % Words) % n

Accepted(raw, n) == raw >= Threshold(n)

(* What uniform_below_u64 makes of the next raw word: another is drawn      *)
(* while it is refused; bound one needs none and bound zero is an error.    *)
Bounded(n) == n > 1
Choice(raw, n) == raw % n
================================================================================
