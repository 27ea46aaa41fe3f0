-------------------------- MODULE TransferDelivery --------------------------
(***************************************************************************)
(* What the delivery of signed opportunities promises, without leases,     *)
(* tokens and messages.  Many workers may be busy with one event, but only *)
(* the one that holds it settles it.  An event is tried Tries times at     *)
(* most before it ends, and what ends as SENT has been accepted by the     *)
(* contract system and stays as it is.                                     *)
(***************************************************************************)
EXTENDS Naturals

CONSTANTS Events, Workers, Nothing, Nobody, Tries

VARIABLES
    state,     \* state[e]: WAITING, TAKEN, SENT or DEAD_LETTER
    holder,    \* holder[e]: the worker that may settle e
    works,     \* works[w]: the event w is busy with
    tries,     \* tries[e]: counted attempts
    accepted   \* the events the contract system has accepted

vars == <<state, holder, works, tries, accepted>>

Init ==
    /\ state = [e \in Events |-> "WAITING"]
    /\ holder = [e \in Events |-> Nobody]
    /\ works = [w \in Workers |-> Nothing]
    /\ tries = [e \in Events |-> 0]
    /\ accepted = {}

Take(w, e) ==
    /\ works[w] = Nothing
    /\ state[e] \in {"WAITING", "TAKEN"}
    /\ state' = [state EXCEPT ![e] = "TAKEN"]
    /\ holder' = [holder EXCEPT ![e] = w]
    /\ works' = [works EXCEPT ![w] = e]
    /\ UNCHANGED <<tries, accepted>>

Settle(w, e, s) ==
    /\ works[w] = e
    /\ holder[e] = w
    /\ s = "WAITING" => tries[e] + 1 < Tries
    /\ s = "SENT" => e \in accepted
    /\ tries[e] < Tries
    /\ state' = [state EXCEPT ![e] = s]
    /\ holder' = [holder EXCEPT ![e] = Nobody]
    /\ works' = [works EXCEPT ![w] = Nothing]
    /\ tries' = [tries EXCEPT ![e] = @ + 1]
    /\ UNCHANGED accepted

(* The worker gives up or stops; the event stays taken.                    *)
Leave(w, e) ==
    /\ works[w] = e
    /\ holder' = [holder EXCEPT ![e] = IF @ = w THEN Nobody ELSE @]
    /\ works' = [works EXCEPT ![w] = Nothing]
    /\ UNCHANGED <<state, tries, accepted>>

Revive(e) ==
    /\ state[e] = "DEAD_LETTER"
    /\ state' = [state EXCEPT ![e] = "WAITING"]
    /\ tries' = [tries EXCEPT ![e] = 0]
    /\ UNCHANGED <<holder, works, accepted>>

Accept(e) ==
    /\ accepted' = accepted \cup {e}
    /\ UNCHANGED <<state, holder, works, tries>>

Next ==
    \E e \in Events :
        \/ \E w \in Workers :
              \/ Take(w, e)
              \/ \E s \in {"WAITING", "SENT", "DEAD_LETTER"} : Settle(w, e, s)
              \/ Leave(w, e)
        \/ Revive(e)
        \/ Accept(e)

Spec == Init /\ [][Next]_vars

=============================================================================
