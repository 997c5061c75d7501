---------------------------- MODULE SettlementBook ----------------------------
(***************************************************************************)
(* What the settlement book of a property promises: a payment is recorded  *)
(* only after the gateway took the money, credited only after it was       *)
(* recorded, and each of the three happens at most once.                   *)
(***************************************************************************)
EXTENDS Naturals

CONSTANT Txns

VARIABLES
    paid,      \* transactions the gateway took money for
    recorded,  \* transactions with a settlement row
    credit     \* how often the ledger was incremented for a transaction

vars == <<paid, recorded, credit>>

Init == paid = {} /\ recorded = {} /\ credit = [x \in Txns |-> 0]

Pay(x) ==
    /\ x \notin paid
    /\ paid' = paid \cup {x}
    /\ UNCHANGED <<recorded, credit>>

Record(x) ==
    /\ x \in paid \ recorded
    /\ recorded' = recorded \cup {x}
    /\ UNCHANGED <<paid, credit>>

Credit(x) ==
    /\ x \in recorded /\ credit[x] = 0
    /\ credit' = [credit EXCEPT ![x] = 1]
    /\ UNCHANGED <<paid, recorded>>

Next == \E x \in Txns : Pay(x) \/ Record(x) \/ Credit(x)

Spec == Init /\ [][Next]_vars
=============================================================================
