---------------------------- MODULE Publication ----------------------------
(***************************************************************************)
(* What the runner and cuanto-cuesta promise together of each rate, with   *)
(* no process, task, request or token in sight: README.md, "How a value    *)
(* gets sent", and the docstring of CuantoCuestaIngest. A run offers one   *)
(* reading at a time; the rate only moves to a reading that was offered    *)
(* and is newer; and the log says of the reading on offer, and of no       *)
(* other, that cuanto-cuesta holds it or something newer, only when it     *)
(* does.                                                                   *)
(***************************************************************************)
EXTENDS Naturals

CONSTANTS
    Series,
    Times        \* when a reading can be from

VARIABLES
    offered,     \* the as_of of every reading ever offered
    onOffer,     \* that of the one whose fate the log has not told, or 0
    published,   \* the observed_at of the rate, or 0
    known        \* the newest as_of the log says is held

vars == <<offered, onOffer, published, known>>

Init ==
    /\ offered = [s \in Series |-> {}]
    /\ onOffer = [s \in Series |-> 0]
    /\ published = [s \in Series |-> 0]
    /\ known = [s \in Series |-> 0]

Offer(s, asOf) ==
    /\ onOffer[s] = 0 /\ asOf > 0
    /\ offered' = [offered EXCEPT ![s] = @ \union {asOf}]
    /\ onOffer' = [onOffer EXCEPT ![s] = asOf]
    /\ UNCHANGED <<published, known>>

(* Also a reading that is no longer on offer: its request was late. *)
Publish(s, asOf) ==
    /\ asOf \in offered[s] /\ asOf > published[s]
    /\ published' = [published EXCEPT ![s] = asOf]
    /\ UNCHANGED <<offered, onOffer, known>>

TellHeld(s) ==
    /\ 0 < onOffer[s] /\ onOffer[s] <= published[s]
    /\ known' = [known EXCEPT ![s] = IF onOffer[s] > @ THEN onOffer[s] ELSE @]
    /\ onOffer' = [onOffer EXCEPT ![s] = 0]
    /\ UNCHANGED <<offered, published>>

(* Refused, unanswered or cut off by a stop: nothing is concluded. *)
Drop(some) ==
    /\ onOffer' = [s \in Series |-> IF s \in some THEN 0 ELSE onOffer[s]]
    /\ UNCHANGED <<offered, published, known>>

Next ==
    \/ \E s \in Series :
        \/ \E asOf \in Times : Offer(s, asOf)
        \/ \E asOf \in offered[s] : Publish(s, asOf)
        \/ TellHeld(s)
    \/ \E some \in SUBSET Series : Drop(some)

Spec == Init /\ [][Next]_vars

----------------------------------------------------------------------------
(* When the log says that cuanto-cuesta holds a reading, or a newer one,   *)
(* then it does, for good: no request that arrives late, from a send that  *)
(* timed out or from a process that is gone, takes it back; and what it    *)
(* holds is a reading that a run accepted.                                 *)
LoggedIsHeld ==
    \A s \in Series :
        /\ known[s] <= published[s]
        /\ published[s] \in offered[s] \union {0}

=============================================================================
