------------------------------- MODULE Billing -------------------------------
(* What credit accounting promises, apart from how a request is served (docs/MANUAL.md "Credit
   deduction is atomic"): an order fixes whose credits it costs and how many, it is settled once, a
   debit takes exactly its price from its own key and only if the balance covers it, it is waived
   only if the balance does not, and nothing but debits and top-ups moves a balance. *)
EXTENDS Integers

CONSTANTS Requests, Keys, Prices, InitialCredits, TopUp

VARIABLES balance, order, bill

Orders == [key : Keys, price : Prices]

Init == /\ balance = [k \in Keys |-> InitialCredits]
        /\ order \in [Requests -> Orders]
        /\ bill = [r \in Requests |-> "none"]

Place(r) ==
    /\ bill[r] = "none" /\ bill' = [bill EXCEPT ![r] = "open"]
    /\ \E o \in Orders : order' = [order EXCEPT ![r] = o]
    /\ UNCHANGED balance

Settle(r, outcome) ==
    /\ bill[r] = "open" /\ bill' = [bill EXCEPT ![r] = outcome]
    /\ UNCHANGED order

Debit(r) ==
    /\ Settle(r, "charged")
    /\ balance[order[r].key] >= order[r].price
    /\ balance' = [balance EXCEPT ![order[r].key] = @ - order[r].price]

Waive(r) ==
    /\ Settle(r, "waived")
    /\ balance[order[r].key] < order[r].price
    /\ UNCHANGED balance

Credit(k) ==
    /\ balance' = [balance EXCEPT ![k] = @ + TopUp]
    /\ UNCHANGED <<order, bill>>

Next == (\E r \in Requests : Place(r) \/ Debit(r) \/ Waive(r)) \/ \E k \in Keys : Credit(k)

Spec == Init /\ [][Next]_<<balance, order, bill>>
=============================================================================
