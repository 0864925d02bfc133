-------------------------- MODULE MCSubscriptionHub --------------------------
\* The subscription hub with interchangeable subscribers and identities.
EXTENDS SubscriptionHub, TLC

Symmetry == Permutations(Subscribers) \cup Permutations(Keys)
=============================================================================
