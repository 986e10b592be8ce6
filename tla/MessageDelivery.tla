--------------------------- MODULE MessageDelivery ---------------------------
(***************************************************************************)
(* What the outbox promises for a message: it is shown at least once       *)
(* before the ledger records it, it is recorded at most once, and it is    *)
(* acknowledged only when it has been recorded.  Until then it may be      *)
(* shown again; in the end it is acknowledged or given up.                 *)
(***************************************************************************)
EXTENDS Naturals

CONSTANT Messages

VARIABLES
    state,      \* state[m]: "new", "open", "acknowledged" or "given_up"
    shown,      \* how often the channel showed a message
    recorded    \* the messages in the ledger

deliveryVars == <<state, shown, recorded>>

DeliveryInit ==
    /\ state = [m \in Messages |-> "new"]
    /\ shown = [m \in Messages |-> 0]
    /\ recorded = {}

Accept(m) ==
    /\ state[m] = "new"
    /\ state' = [state EXCEPT ![m] = "open"]
    /\ UNCHANGED <<shown, recorded>>

ShowOnce(m) ==
    /\ state[m] = "open"
    /\ shown' = [shown EXCEPT ![m] = @ + 1]
    /\ UNCHANGED <<state, recorded>>

Record(m) ==
    /\ state[m] = "open"
    /\ shown[m] > 0
    /\ m \notin recorded
    /\ recorded' = recorded \cup {m}
    /\ UNCHANGED <<state, shown>>

Acknowledge(m) ==
    /\ state[m] = "open"
    /\ m \in recorded
    /\ state' = [state EXCEPT ![m] = "acknowledged"]
    /\ UNCHANGED <<shown, recorded>>

GiveUp(m) ==
    /\ state[m] = "open"
    /\ state' = [state EXCEPT ![m] = "given_up"]
    /\ UNCHANGED <<shown, recorded>>

DeliveryNext ==
    \E m \in Messages :
        Accept(m) \/ ShowOnce(m) \/ Record(m) \/ Acknowledge(m) \/ GiveUp(m)

DeliverySpec == DeliveryInit /\ [][DeliveryNext]_deliveryVars
=============================================================================
