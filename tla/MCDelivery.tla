----------------------------- MODULE MCDelivery -----------------------------
EXTENDS Delivery, TLC

Anybody == Permutations(Job) \cup Permutations(Deliverer) \cup Permutations(Outcome)
=============================================================================
